---------------------------- MODULE Spec2Model ----------------------------
(***************************************************************************)
(* Model of the mini-pomodoro timer core: the persisted run-state store    *)
(* (AsyncStorage-backed src/src/state/timerStore.ts and the localStorage-  *)
(* backed src/unnamed/part_021), the session history repository            *)
(* (src/unnamed/part_003) and the TimerScreen driver that composes them    *)
(* (src/src/screens/TimerScreen.tsx).                                      *)
(*                                                                         *)
(* Time is the millisecond wall clock (Date.now()).  JSON values are       *)
(* records [t, s, n, f]: t is the JSON/JS type tag, s a string payload,    *)
(* n an integer payload and f a fractional part in tenths, so that the     *)
(* number n + f/10 is representable.  An ISO-8601 timestamp string is the  *)
(* string value [t = "str", s = "iso", n = epoch milliseconds].            *)
(***************************************************************************)
EXTENDS Integers, Sequences, FiniteSets, TLC

VARIABLES
    now,            \* Date.now(), epoch milliseconds
    runKey,         \* AsyncStorage payload under RUN_STATE_KEY
    histKey,        \* AsyncStorage payload under HISTORY_KEY
    webRunKey,      \* localStorage payload under RUN_STATE_KEY (web store)
    webHistKey,     \* localStorage payload under HISTORY_KEY (web store)
    op,             \* the store operation that ran last
    ret,            \* what timerStore.hydrate() returned, when it ran last
    webRet,         \* what the web timerStore.hydrate() returned, when it ran last
    got,            \* what historyRepo.getAll() returned, when it ran last
    webGot,         \* what the web historyRepo.getAll() returned, when it ran last
    pausedRem,      \* remainingSec written by pause() while that record stands, else -1
    runState,       \* TimerScreen: the displayed run state (useState)
    isHydrated,     \* TimerScreen: the mount hydration has finished
    completionLockRef, \* TimerScreen: completeSession is in flight
    isModalVisible, \* TimerScreen: the completion modal is shown
    errorMessage,   \* TimerScreen: the error banner ("null" when none)
    mount,          \* TimerScreen: the mount effect's hydrate call
    fg,             \* TimerScreen: the AppState listener's syncFromStorage call
    ui,             \* TimerScreen: the button handler in flight
    comp,           \* TimerScreen: the completeSession call
    breakState,     \* mode-switching screen: the break timer (useState)
    selectedMode,   \* mode-switching screen: "focus", "short_break" or "long_break"
    modeCall,       \* mode-switching screen: the handleModeSelect call in flight
    nextCall,       \* mode-switching screen: the handleStartNextSession call in flight
    runningMs,      \* time the stored state has been Running since the last start()
    pauses          \* pause() calls that took effect since the last start()

storeVars == <<now, runKey, histKey, webRunKey, webHistKey, op, ret, webRet,
               got, webGot, pausedRem>>

\* what the one-call-at-a-time interface observes, and the web store
apiVars == <<webRunKey, webHistKey, op, ret, webRet, got, webGot, pausedRem>>

driverVars == <<runState, isHydrated, completionLockRef, isModalVisible,
                errorMessage, mount, fg, ui, comp>>

\* the break timer and the mode of the screens that have them
modeVars == <<breakState, selectedMode, modeCall, nextCall>>

\* the account of a session's running time
sessionVars == <<runningMs, pauses>>

\* what the store interface and the TimerScreen leave alone
restVars == <<modeVars, sessionVars>>

vars == <<now, runKey, histKey, webRunKey, webHistKey, op, ret, webRet,
          got, webGot, pausedRem, runState, isHydrated, completionLockRef,
          isModalVisible, errorMessage, mount, fg, ui, comp,
          breakState, selectedMode, modeCall, nextCall, runningMs, pauses>>

-----------------------------------------------------------------------------
(* Program constants *)

SESSION_DURATION_SEC == 1500

POMODORO_SECONDS == SESSION_DURATION_SEC

-----------------------------------------------------------------------------
(* JSON / JS values *)

Null == [t |-> "null", s |-> "", n |-> 0, f |-> 0]

Missing == [t |-> "undefined", s |-> "", n |-> 0, f |-> 0]

Num(k) == [t |-> "num", s |-> "", n |-> k, f |-> 0]

Frac(k, tenths) == [t |-> "num", s |-> "", n |-> k, f |-> tenths]

PosInf == [t |-> "inf", s |-> "", n |-> 0, f |-> 0]

NegInf == [t |-> "ninf", s |-> "", n |-> 0, f |-> 0]

Str(x) == [t |-> "str", s |-> x, n |-> 0, f |-> 0]

BoolTrue == [t |-> "bool", s |-> "", n |-> 1, f |-> 0]

\* new Date(ms).toISOString()
toISOString(ms) == [t |-> "str", s |-> "iso", n |-> ms, f |-> 0]

\* typeof v === "number"
IsNumber(v) == v.t \in {"num", "inf", "ninf"}

\* Number.isFinite(v)
IsFinite(v) == v.t = "num"

\* typeof v === "string"
IsString(v) == v.t = "str"

\* Date.parse(v) is a number (not NaN)
IsDate(v) == v.t = "str" /\ v.s = "iso"

\* Date.parse(v) for a timestamp string
DateParse(v) == v.n

\* -(-a \div b): the ceiling of a/b for b > 0
CeilDiv(a, b) == -((-a) \div b)

Min(a, b) == IF a < b THEN a ELSE b

Max(a, b) == IF a > b THEN a ELSE b

\* Math.round of the finite number v: half rounds up
MathRound(v) == IF v.f >= 5 THEN v.n + 1 ELSE v.n

-----------------------------------------------------------------------------
(* src/src/utils/time: clampRemainingSec, computeRemainingSec *)

\* clampRemainingSec rounding without clamping to the session's length
clampRemainingSec_round(value) ==
    IF ~IsFinite(value) THEN POMODORO_SECONDS
    ELSE MathRound(value)

clampRemainingSec(value) ==
    IF ~IsFinite(value) THEN POMODORO_SECONDS
    ELSE Min(POMODORO_SECONDS, Max(0, MathRound(value)))

\* Math.ceil((endAtEpochMs - nowEpochMs) / 1000) as a JS number
CeilDelta(endAtEpochMs, nowEpochMs) ==
    IF ~IsFinite(endAtEpochMs) THEN endAtEpochMs
    ELSE IF endAtEpochMs.f = 0
         THEN Num(CeilDiv(endAtEpochMs.n - nowEpochMs, 1000))
         ELSE Num(CeilDiv(endAtEpochMs.n + 1 - nowEpochMs, 1000))

\* computeRemainingSec with Math.floor in place of Math.ceil
computeRemainingSec_floor(endAtEpochMs, nowEpochMs) ==
    IF ~IsFinite(endAtEpochMs) THEN POMODORO_SECONDS
    ELSE Min(POMODORO_SECONDS, Max(0, (endAtEpochMs.n - nowEpochMs) \div 1000))

computeRemainingSec(endAtEpochMs, nowEpochMs) ==
    clampRemainingSec(CeilDelta(endAtEpochMs, nowEpochMs))

-----------------------------------------------------------------------------
(* Stored payloads.  A payload is what getItem returns: nothing, a string  *)
(* that is not JSON, or JSON text, held here as the value JSON.parse gives *)

RunPayload(kind, status, startedAtISO, endAtEpochMs, remainingSec) ==
    [kind |-> kind, status |-> status, startedAtISO |-> startedAtISO,
     endAtEpochMs |-> endAtEpochMs, remainingSec |-> remainingSec]

\* getItem returns null (or the empty string)
AbsentRun == RunPayload("absent", Missing, Missing, Missing, Missing)

\* a string JSON.parse throws on
GarbageRun == RunPayload("garbage", Missing, Missing, Missing, Missing)

\* JSON that is not an object: a number, a string, true, null
ScalarRun == RunPayload("scalar", Missing, Missing, Missing, Missing)

\* a JSON array: typeof "object", none of the four properties
ArrayRun == RunPayload("array", Missing, Missing, Missing, Missing)

\* JSON.stringify of a number-or-null field: a non-finite number becomes null
StringifyNumber(v) == IF IsNumber(v) /\ ~IsFinite(v) THEN Null ELSE v

\* JSON.stringify(state) of a PersistedRunState
JSONstringify(state) ==
    RunPayload("object", Str(state.status), state.startedAtISO,
               StringifyNumber(state.endAtEpochMs), Num(state.remainingSec))

RunState(status, startedAtISO, endAtEpochMs, remainingSec) ==
    [status |-> status, startedAtISO |-> startedAtISO,
     endAtEpochMs |-> endAtEpochMs, remainingSec |-> remainingSec]

-----------------------------------------------------------------------------
(* src/src/state/timerStore.ts *)

createIdleState == RunState("idle", Null, Null, POMODORO_SECONDS)

isRunStatus(value) ==
    IsString(value) /\ value.s \in {"idle", "running", "paused"}

\* sanitizeState reading a property the record does not have in place of
\* remainingSec, so that every record reads as a full session
sanitizeState_dropRemaining(value) ==
    IF value.kind = "scalar" \/ ~isRunStatus(value.status) \/ value.status.s = "idle"
    THEN createIdleState
    ELSE LET endAtEpochMs == IF IsNumber(value.endAtEpochMs) /\ IsFinite(value.endAtEpochMs)
                             THEN value.endAtEpochMs ELSE Null
         IN  RunState(IF value.status.s = "running" /\ endAtEpochMs = Null
                      THEN "paused" ELSE value.status.s,
                      IF IsString(value.startedAtISO) THEN value.startedAtISO ELSE Null,
                      endAtEpochMs, POMODORO_SECONDS)

sanitizeState(value) ==
    IF value.kind = "scalar" THEN createIdleState
    ELSE
      LET status == IF isRunStatus(value.status) THEN value.status.s ELSE "idle"
          startedAtISO == IF IsString(value.startedAtISO)
                          THEN value.startedAtISO ELSE Null
          endAtEpochMs == IF IsNumber(value.endAtEpochMs) /\ IsFinite(value.endAtEpochMs)
                          THEN value.endAtEpochMs ELSE Null
          remainingSec == clampRemainingSec(
                            IF IsNumber(value.remainingSec)
                            THEN value.remainingSec ELSE Num(POMODORO_SECONDS))
      IN  IF status = "idle" THEN createIdleState
          ELSE IF status = "running" /\ endAtEpochMs = Null
               THEN RunState("paused", startedAtISO, Null, remainingSec)
               ELSE RunState(status, startedAtISO, endAtEpochMs, remainingSec)

\* what a call that resolves to no value, or rejects, leaves in ret
NoState == RunState("none", Null, Null, 0)

\* readRunState without the try/catch around JSON.parse: the error escapes
readRunState_noCatch(serialized) ==
    IF serialized.kind = "absent" THEN createIdleState
    ELSE IF serialized.kind = "garbage" THEN NoState
         ELSE sanitizeState(serialized)

readRunState(serialized) ==
    IF serialized.kind = "absent" THEN createIdleState
    ELSE IF serialized.kind = "garbage" THEN createIdleState
         ELSE sanitizeState(serialized)

writeRunState(state) == JSONstringify(state)

\* hydrate completing the session itself once nothing remains
HydrateStep_expire(current, t) ==
    IF current.status = "running" /\ current.endAtEpochMs # Null
    THEN IF computeRemainingSec(current.endAtEpochMs, t) <= 0
         THEN [write |-> TRUE, state |-> createIdleState]
         ELSE [write |-> TRUE,
               state |-> [current EXCEPT
                            !.remainingSec = computeRemainingSec(current.endAtEpochMs, t)]]
    ELSE [write |-> current.status = "paused", state |-> current]

\* hydrate's continuation after readRunState resolved with current, at time t:
\* whether it writes, and the state it writes and returns
HydrateStep(current, t) ==
    IF current.status # "running" \/ current.endAtEpochMs = Null
    THEN IF current.status = "paused"
         THEN LET normalizedPaused ==
                    [current EXCEPT !.remainingSec = clampRemainingSec(Num(current.remainingSec))]
              IN  [write |-> TRUE, state |-> normalizedPaused]
         ELSE [write |-> FALSE, state |-> current]
    ELSE LET next == [current EXCEPT
                        !.remainingSec = computeRemainingSec(current.endAtEpochMs, t)]
         IN  [write |-> TRUE, state |-> next]

\* hydrate() run to completion at time t on the stored payload:
\* [state: what it returns, stored: the payload it leaves]
hydrate(serialized, t) ==
    LET h == HydrateStep(readRunState(serialized), t)
    IN  [state |-> h.state,
         stored |-> IF h.write THEN writeRunState(h.state) ELSE serialized]

\* start with the deadline a session's seconds, not milliseconds, ahead
start_seconds(t) ==
    writeRunState(RunState("running", toISOString(t),
                           Num(t + POMODORO_SECONDS), POMODORO_SECONDS))

start(t) ==
    writeRunState(RunState("running", toISOString(t),
                           Num(t + POMODORO_SECONDS * 1000), POMODORO_SECONDS))

\* reset() that keeps the remainder of the stored record
reset_keepRemaining ==
    writeRunState(RunState("idle", Null, Null, readRunState(runKey).remainingSec))

reset == writeRunState(createIdleState)

\* pause rounding the remainder down to the whole second
PauseStep_floor(current, t) ==
    IF current.status # "running" \/ current.endAtEpochMs = Null
    THEN [write |-> FALSE, state |-> current]
    ELSE [write |-> TRUE,
          state |-> RunState("paused", current.startedAtISO, Null,
                             computeRemainingSec_floor(current.endAtEpochMs, t))]

\* pause storing a Paused record whatever the status it found
PauseStep_anyStatus(current, t) ==
    IF current.status = "running" /\ current.endAtEpochMs # Null
    THEN [write |-> TRUE,
          state |-> RunState("paused", current.startedAtISO, Null,
                             computeRemainingSec(current.endAtEpochMs, t))]
    ELSE [write |-> TRUE,
          state |-> RunState("paused", current.startedAtISO, Null, current.remainingSec)]

\* pause keeping the deadline in the record it stores
PauseStep_keepEndAt(current, t) ==
    IF current.status # "running" \/ current.endAtEpochMs = Null
    THEN [write |-> FALSE, state |-> current]
    ELSE [write |-> TRUE,
          state |-> RunState("paused", current.startedAtISO, current.endAtEpochMs,
                             computeRemainingSec(current.endAtEpochMs, t))]

\* pause's continuation after hydrate returned current, at time t
PauseStep(current, t) ==
    IF current.status # "running" \/ current.endAtEpochMs = Null
    THEN [write |-> FALSE, state |-> current]
    ELSE [write |-> TRUE,
          state |-> RunState("paused", current.startedAtISO, Null,
                             computeRemainingSec(current.endAtEpochMs, t))]

pause(serialized, t) ==
    LET h == hydrate(serialized, t)
        p == PauseStep(h.state, t)
    IN  IF p.write THEN writeRunState(p.state) ELSE h.stored

\* resume stamping the record with the time of the call
ResumeStep_restamp(current, t) ==
    IF current.status # "paused"
    THEN [write |-> FALSE, state |-> current]
    ELSE IF current.remainingSec <= 0
         THEN [write |-> TRUE, state |-> createIdleState]
         ELSE [write |-> TRUE,
               state |-> RunState("running", toISOString(t),
                           Num(t + clampRemainingSec(Num(current.remainingSec)) * 1000),
                           clampRemainingSec(Num(current.remainingSec)))]

\* resume treating a Running record as a Paused one
ResumeStep_anyStatus(current, t) ==
    IF current.status = "idle"
    THEN [write |-> FALSE, state |-> current]
    ELSE IF current.remainingSec <= 0
         THEN [write |-> TRUE, state |-> createIdleState]
         ELSE [write |-> TRUE,
               state |-> RunState("running",
                           IF current.startedAtISO = Null
                           THEN toISOString(t) ELSE current.startedAtISO,
                           Num(t + clampRemainingSec(Num(current.remainingSec)) * 1000),
                           clampRemainingSec(Num(current.remainingSec)))]

\* resume without the branch for a record with nothing remaining
ResumeStep_noZero(current, t) ==
    IF current.status # "paused"
    THEN [write |-> FALSE, state |-> current]
    ELSE [write |-> TRUE,
          state |-> RunState("running",
                      IF current.startedAtISO = Null
                      THEN toISOString(t) ELSE current.startedAtISO,
                      Num(t + clampRemainingSec(Num(current.remainingSec)) * 1000),
                      clampRemainingSec(Num(current.remainingSec)))]

\* resume giving the session its full length again
ResumeStep_fresh(current, t) ==
    IF current.status # "paused"
    THEN [write |-> FALSE, state |-> current]
    ELSE IF current.remainingSec <= 0
         THEN [write |-> TRUE, state |-> createIdleState]
         ELSE [write |-> TRUE,
               state |-> RunState("running",
                           IF current.startedAtISO = Null
                           THEN toISOString(t) ELSE current.startedAtISO,
                           Num(t + POMODORO_SECONDS * 1000),
                           clampRemainingSec(Num(current.remainingSec)))]

\* resume's continuation after hydrate returned current, at time t
ResumeStep(current, t) ==
    IF current.status # "paused"
    THEN [write |-> FALSE, state |-> current]
    ELSE IF current.remainingSec <= 0
         THEN [write |-> TRUE, state |-> createIdleState]
         ELSE [write |-> TRUE,
               state |-> RunState("running",
                           IF current.startedAtISO = Null
                           THEN toISOString(t) ELSE current.startedAtISO,
                           Num(t + clampRemainingSec(Num(current.remainingSec)) * 1000),
                           clampRemainingSec(Num(current.remainingSec)))]

resume(serialized, t) ==
    LET h == hydrate(serialized, t)
        r == ResumeStep(h.state, t)
    IN  IF r.write THEN writeRunState(r.state) ELSE h.stored

-----------------------------------------------------------------------------
(* src/unnamed/part_021: the localStorage-backed timer store *)

webReadState(raw) ==
    IF raw.kind \in {"absent", "garbage", "scalar"} THEN createIdleState
    ELSE
      LET status == IF IsString(raw.status) /\ raw.status.s \in {"running", "paused"}
                    THEN raw.status.s ELSE "idle"
      IN  IF status = "idle" THEN createIdleState
          ELSE RunState(status,
                 IF IsString(raw.startedAtISO) THEN raw.startedAtISO ELSE Null,
                 IF IsNumber(raw.endAtEpochMs) THEN raw.endAtEpochMs ELSE Null,
                 clampRemainingSec(IF IsNumber(raw.remainingSec)
                                   THEN raw.remainingSec ELSE Num(POMODORO_SECONDS)))

webWriteState(state) == JSONstringify(state)

webHydrate(raw, t) ==
    LET current == webReadState(raw)
    IN  IF current.status = "running" /\ current.endAtEpochMs # Null
        THEN LET next == [current EXCEPT
                            !.remainingSec = computeRemainingSec(current.endAtEpochMs, t)]
             IN  [state |-> next, stored |-> webWriteState(next)]
        ELSE [state |-> current, stored |-> raw]

webStart(t) ==
    webWriteState(RunState("running", toISOString(t),
                           Num(t + POMODORO_SECONDS * 1000), POMODORO_SECONDS))

webReset == webWriteState(createIdleState)

webPause(raw, t) ==
    LET current == webReadState(raw)
    IN  IF current.status # "running" \/ current.endAtEpochMs = Null THEN raw
        ELSE webWriteState(RunState("paused", current.startedAtISO, Null,
                                    computeRemainingSec(current.endAtEpochMs, t)))

webResume(raw, t) ==
    LET current == webReadState(raw)
    IN  IF current.status # "paused" THEN raw
        ELSE IF current.remainingSec <= 0 THEN webReset
             ELSE webWriteState(RunState("running",
                    IF current.startedAtISO = Null
                    THEN toISOString(t) ELSE current.startedAtISO,
                    Num(t + clampRemainingSec(Num(current.remainingSec)) * 1000),
                    clampRemainingSec(Num(current.remainingSec))))

-----------------------------------------------------------------------------
(* History payloads and src/unnamed/part_003: historyRepo *)

\* an element of a stored JSON array: an object with the four properties
\* (any of them possibly missing or of the wrong type), or not an object
Element(isObject, id, startedAtISO, completedAtISO, durationSec) ==
    [obj |-> isObject, id |-> id, startedAtISO |-> startedAtISO,
     completedAtISO |-> completedAtISO, durationSec |-> durationSec]

\* a SessionEntry built with the length of a short break
SessionEntry_break(id, startedAtISO, completedAtISO) ==
    Element(TRUE, id, startedAtISO, completedAtISO, Num(300))

\* a SessionEntry as a caller builds it
SessionEntry(id, startedAtISO, completedAtISO) ==
    Element(TRUE, id, startedAtISO, completedAtISO, Num(SESSION_DURATION_SEC))

HistPayload(kind, items) == [kind |-> kind, items |-> items]

AbsentHist == HistPayload("absent", <<>>)

GarbageHist == HistPayload("garbage", <<>>)

\* JSON that is not an array: an object, a number, a string
NonArrayHist == HistPayload("scalar", <<>>)

isSessionEntry(value) ==
    /\ value.obj
    /\ IsString(value.id)
    /\ IsString(value.startedAtISO)
    /\ IsString(value.completedAtISO)
    /\ value.durationSec = Num(SESSION_DURATION_SEC)

RECURSIVE Filter(_, _)
\* Array.prototype.filter with the shape check keep(x); web selects the web check
Filter(items, web) ==
    IF items = <<>> THEN <<>>
    ELSE LET x == Head(items)
             keep == IF web
                     THEN x.obj /\ IsString(x.id) /\ IsString(x.startedAtISO)
                          /\ IsString(x.completedAtISO)
                     ELSE isSessionEntry(x)
         IN  IF keep THEN <<x>> \o Filter(Tail(items), web)
             ELSE Filter(Tail(items), web)

\* the comparator (a, b) => Date.parse(b.completedAtISO) - Date.parse(a.completedAtISO)
\* is positive: b is to come before a.  (NaN, from a string that is no date, counts as 0.)
\* the comparator with its operands exchanged: oldest first
ComesAfter_ascending(a, b) ==
    /\ IsDate(a.completedAtISO)
    /\ IsDate(b.completedAtISO)
    /\ DateParse(a.completedAtISO) - DateParse(b.completedAtISO) > 0

ComesAfter(a, b) ==
    /\ IsDate(a.completedAtISO)
    /\ IsDate(b.completedAtISO)
    /\ DateParse(b.completedAtISO) - DateParse(a.completedAtISO) > 0

RECURSIVE InsertSorted(_, _)
\* x placed behind every element of the sorted sequence it does not precede
InsertSorted(sorted, x) ==
    IF sorted = <<>> THEN <<x>>
    ELSE IF ComesAfter(Head(sorted), x)
         THEN <<x>> \o sorted
         ELSE <<Head(sorted)>> \o InsertSorted(Tail(sorted), x)

RECURSIVE SortFrom(_, _)
SortFrom(sorted, rest) ==
    IF rest = <<>> THEN sorted
    ELSE SortFrom(InsertSorted(sorted, Head(rest)), Tail(rest))

\* Array.prototype.sort with that comparator: stable, newest first
sortNewestFirst(items) == SortFrom(<<>>, items)

normalizeHistory(value) ==
    IF value.kind # "array" THEN <<>>
    ELSE sortNewestFirst(Filter(value.items, FALSE))

readHistory(serialized) ==
    IF serialized.kind = "absent" THEN <<>>
    ELSE IF serialized.kind = "garbage" THEN <<>>
         ELSE normalizeHistory(serialized)

getAll(serialized) == readHistory(serialized)

\* append dropping the stored entries that carry the new entry's id
AppendStep_dedup(current, entry) ==
    HistPayload("array",
                sortNewestFirst(<<entry>> \o SelectSeq(current, LAMBDA x : x.id # entry.id)))

\* append's continuation after readHistory resolved with current:
\* JSON.stringify of the array it stores
AppendStep(current, entry) ==
    HistPayload("array", sortNewestFirst(<<entry>> \o current))

\* historyRepo.append(entry) run to completion: the payload it leaves
append(serialized, entry) == AppendStep(readHistory(serialized), entry)

\* part_021 historyRepo.getAll
webGetAll(raw) ==
    IF raw.kind \in {"absent", "garbage"} THEN <<>>
    ELSE IF raw.kind # "array" THEN <<>>
         ELSE sortNewestFirst(Filter(raw.items, TRUE))

\* part_021 historyRepo.append
webAppend(raw, entry) ==
    HistPayload("array", sortNewestFirst(<<entry>> \o webGetAll(raw)))

-----------------------------------------------------------------------------
(* The store interface, one call at a time, from any stored payload *)

\* bound on the entries the history holds
MaxHist == 2

\* the instants the clock is read at: around the start, around the deadline
\* of a session started at 0, and a full session later
Times == {0, 1, 1000, 749000, 1499001, 1500000, 1501000, 3000000}

StartedValues == {toISOString(0), Null, Num(5)}

EndAtValues == {Num(1500000), Num(1), Frac(1000, 5), Num(9000000), Null, Missing,
                PosInf, Str("soon")}

RemainingValues == {Num(0), Num(7), Num(1500), Num(-3), Num(2000), Frac(7, 5),
                    PosInf, Str("7"), Missing}

\* every field combination under the two statuses that keep their fields;
\* a few under the statuses that read as idle
RunPayloads ==
    {AbsentRun, GarbageRun, ScalarRun, ArrayRun}
    \cup {RunPayload("object", st, sa, ea, rs) :
            st \in {Str("running"), Str("paused")}, sa \in StartedValues,
            ea \in EndAtValues, rs \in RemainingValues}
    \cup {RunPayload("object", st, toISOString(0), ea, rs) :
            st \in {Str("idle"), Str("done"), Missing},
            ea \in {Num(1500000), Null}, rs \in {Num(7), Missing}}

\* entries a caller appends
EntryValues ==
    {SessionEntry(Str(id), toISOString(0), toISOString(c)) :
        id \in {"a", "b"}, c \in {1500000, 1500001, 3000000, 4500000}}

\* elements failing the shape check
BadElements ==
    {Element(FALSE, Missing, Missing, Missing, Missing),
     Element(TRUE, Num(1), toISOString(0), toISOString(1500000), Num(SESSION_DURATION_SEC)),
     Element(TRUE, Str("a"), toISOString(0), Missing, Num(SESSION_DURATION_SEC)),
     Element(TRUE, Str("a"), toISOString(0), toISOString(1500000), Num(300))}

HistPayloads ==
    {AbsentHist, GarbageHist, NonArrayHist, HistPayload("array", <<>>)}
    \cup {HistPayload("array", <<x>>) : x \in EntryValues \cup BadElements}
    \cup {HistPayload("array", <<x, y>>) : x \in EntryValues \cup BadElements, y \in EntryValues}

\* the values the call that just ran returned: hydrate's state from either
\* store, getAll's entries from either repository
Returns(state, webState, entries, webEntries) ==
    /\ ret' = state
    /\ webRet' = webState
    /\ got' = entries
    /\ webGot' = webEntries

-----------------------------------------------------------------------------
(* src/src/screens/TimerScreen.tsx: the state of a mounted screen *)

\* an async call of the screen: pc is the await it is suspended at, kind the
\* store operation a button chose, cur the run state its hydrate holds,
\* entry the SessionEntry under construction, hist the history append read
Call(pc, kind, cur, entry, hist) ==
    [pc |-> pc, kind |-> kind, cur |-> cur, entry |-> entry, hist |-> hist]

NoEntry == Element(FALSE, Missing, Missing, Missing, Missing)

NoCall == Call("idle", "", NoState, NoEntry, <<>>)

\* timerStore.hydrate() called: readRunState's getItem is issued
HydrateCalled(kind) == Call("h_read", kind, readRunState(runKey), NoEntry, <<>>)

\* the screen after construction: useState defaults, refs, and the mount
\* effect's run() suspended in hydrate()
DriverMounted ==
    /\ runState = createIdleState
    /\ isHydrated = FALSE
    /\ completionLockRef = FALSE
    /\ isModalVisible = FALSE
    /\ errorMessage = "null"
    /\ mount = HydrateCalled("mount")
    /\ fg = NoCall
    /\ ui = NoCall
    /\ comp = NoCall

\* no screen is mounted: the store is called directly, nothing is in flight
DriverUnmounted ==
    /\ runState = createIdleState
    /\ isHydrated = FALSE
    /\ completionLockRef = FALSE
    /\ isModalVisible = FALSE
    /\ errorMessage = "null"
    /\ mount = NoCall
    /\ fg = NoCall
    /\ ui = NoCall
    /\ comp = NoCall

SHORT_BREAK_SECONDS == 300

LONG_BREAK_SECONDS == 900

getBreakDuration(mode) ==
    IF mode = "short_break" THEN SHORT_BREAK_SECONDS ELSE LONG_BREAK_SECONDS

\* src/unnamed/part_007: the break timer, a BreakRunState
BreakRunState(endAtEpochMs, mode, remainingSec, status) ==
    [endAtEpochMs |-> endAtEpochMs, mode |-> mode,
     remainingSec |-> remainingSec, status |-> status]

createBreakState(mode) ==
    BreakRunState(Null, mode, getBreakDuration(mode), "idle")

\* the screen has no break timer in use: the useState defaults
NoBreak ==
    /\ breakState = createBreakState("short_break")
    /\ selectedMode = "focus"
    /\ modeCall = NoCall
    /\ nextCall = NoCall

\* no session is accounted for
NoAccount ==
    /\ runningMs = 0
    /\ pauses = 0

\* `${Date.now()}`
msString(ms) == [t |-> "str", s |-> "ms", n |-> ms, f |-> 0]

Init ==
    /\ now = 0
    /\ \/ runKey \in RunPayloads /\ histKey = AbsentHist
       \/ runKey \in {AbsentRun, GarbageRun} /\ histKey \in {GarbageHist, NonArrayHist}
    /\ webRunKey = runKey
    /\ webHistKey = histKey
    /\ op = "init"
    /\ ret = NoState
    /\ webRet = NoState
    /\ got = <<>>
    /\ webGot = <<>>
    /\ pausedRem = -1
    /\ DriverUnmounted
    /\ NoBreak
    /\ NoAccount

\* the clock advances
Tick ==
    /\ \E t \in Times : t > now /\ now' = t
    /\ op' = "tick"
    /\ Returns(NoState, NoState, <<>>, <<>>)
    /\ UNCHANGED <<runKey, histKey, webRunKey, webHistKey, pausedRem, driverVars, restVars>>

CallHydrate ==
    /\ op' = "hydrate"
    /\ Returns(hydrate(runKey, now).state, webHydrate(webRunKey, now).state, <<>>, <<>>)
    /\ runKey' = hydrate(runKey, now).stored
    /\ webRunKey' = webHydrate(webRunKey, now).stored
    /\ UNCHANGED <<now, histKey, webHistKey, pausedRem, driverVars, restVars>>

CallStart ==
    /\ op' = "start"
    /\ runKey' = start(now)
    /\ webRunKey' = webStart(now)
    /\ pausedRem' = -1
    /\ Returns(NoState, NoState, <<>>, <<>>)
    /\ UNCHANGED <<now, histKey, webHistKey, driverVars, restVars>>

CallPause ==
    /\ op' = "pause"
    /\ runKey' = pause(runKey, now)
    /\ webRunKey' = webPause(webRunKey, now)
    /\ pausedRem' = IF PauseStep(hydrate(runKey, now).state, now).write
                    THEN PauseStep(hydrate(runKey, now).state, now).state.remainingSec
                    ELSE pausedRem
    /\ Returns(NoState, NoState, <<>>, <<>>)
    /\ UNCHANGED <<now, histKey, webHistKey, driverVars, restVars>>

CallResume ==
    /\ op' = "resume"
    /\ runKey' = resume(runKey, now)
    /\ webRunKey' = webResume(webRunKey, now)
    /\ pausedRem' = IF ResumeStep(hydrate(runKey, now).state, now).write
                    THEN -1 ELSE pausedRem
    /\ Returns(NoState, NoState, <<>>, <<>>)
    /\ UNCHANGED <<now, histKey, webHistKey, driverVars, restVars>>

CallReset ==
    /\ op' = "reset"
    /\ runKey' = reset
    /\ webRunKey' = webReset
    /\ pausedRem' = -1
    /\ Returns(NoState, NoState, <<>>, <<>>)
    /\ UNCHANGED <<now, histKey, webHistKey, driverVars, restVars>>

CallGetAll ==
    /\ op' = "getAll"
    /\ Returns(NoState, NoState, getAll(histKey), webGetAll(webHistKey))
    /\ UNCHANGED <<now, runKey, histKey, webRunKey, webHistKey, pausedRem, driverVars, restVars>>

\* The caller's half of an expiry (TimerScreen.completeSession): hydrate has
\* just reported Running with nothing remaining, and the caller appends the
\* session's entry.  Its reset() is CallReset.
CallAppendExpired ==
    /\ ret.status = "running"
    /\ ret.remainingSec <= 0
    /\ Len(readHistory(histKey)) < MaxHist
    /\ LET completedAtISO == toISOString(now)
           startedAtISO == IF ret.startedAtISO = Null
                           THEN completedAtISO ELSE ret.startedAtISO
           entry == SessionEntry(msString(now), startedAtISO, completedAtISO)
       IN  /\ histKey' = append(histKey, entry)
           /\ webHistKey' = webAppend(webHistKey, entry)
    /\ op' = "append"
    /\ Returns(NoState, NoState, <<>>, <<>>)
    /\ UNCHANGED <<now, runKey, webRunKey, pausedRem, driverVars, restVars>>

Next ==
    \/ Tick
    \/ CallHydrate
    \/ CallStart
    \/ CallPause
    \/ CallResume
    \/ CallReset
    \/ CallGetAll
    \/ CallAppendExpired

Spec == Init /\ [][Next]_vars

-----------------------------------------------------------------------------
(* The history repository alone, from any stored payload, any caller's entries *)

\* bound on the entries the history holds in HistorySpec
MaxLog == 3

HistoryInit ==
    /\ now = 0
    /\ runKey = AbsentRun
    /\ webRunKey = AbsentRun
    /\ histKey \in HistPayloads
    /\ webHistKey = histKey
    /\ op = "init"
    /\ ret = NoState
    /\ webRet = NoState
    /\ got = <<>>
    /\ webGot = <<>>
    /\ pausedRem = -1
    /\ DriverUnmounted
    /\ NoBreak
    /\ NoAccount

CallAppend ==
    /\ Len(histKey.items) < MaxLog
    /\ \E entry \in EntryValues :
         /\ histKey' = append(histKey, entry)
         /\ webHistKey' = webAppend(webHistKey, entry)
    /\ op' = "append"
    /\ Returns(NoState, NoState, <<>>, <<>>)
    /\ UNCHANGED <<now, runKey, webRunKey, pausedRem, driverVars, restVars>>

HistoryNext ==
    \/ CallGetAll
    \/ CallAppend

HistorySpec == HistoryInit /\ [][HistoryNext]_vars

-----------------------------------------------------------------------------
(* The store on a fresh installation, with the account of each session: the *)
(* time its record has been Running and the pause() calls that took effect  *)

\* a session is paused at most this many times
MaxPauses == 2

SessionInit ==
    /\ now = 0
    /\ runKey = AbsentRun
    /\ histKey = AbsentHist
    /\ webRunKey = AbsentRun
    /\ webHistKey = AbsentHist
    /\ op = "init"
    /\ ret = NoState
    /\ webRet = NoState
    /\ got = <<>>
    /\ webGot = <<>>
    /\ pausedRem = -1
    /\ DriverUnmounted
    /\ NoBreak
    /\ NoAccount

\* the clock advances; the time counts when the stored state is Running
SessionTick ==
    /\ \E t \in Times :
         /\ t > now
         /\ now' = t
         /\ runningMs' = IF readRunState(runKey).status = "running"
                         THEN runningMs + (t - now) ELSE runningMs
    /\ op' = "tick"
    /\ Returns(NoState, NoState, <<>>, <<>>)
    /\ UNCHANGED <<runKey, histKey, webRunKey, webHistKey, pausedRem, pauses,
                   driverVars, modeVars>>

SessionStart ==
    /\ op' = "start"
    /\ runKey' = start(now)
    /\ runningMs' = 0
    /\ pauses' = 0
    /\ Returns(NoState, NoState, <<>>, <<>>)
    /\ UNCHANGED <<now, histKey, webRunKey, webHistKey, pausedRem, driverVars, modeVars>>

SessionHydrate ==
    /\ op' = "hydrate"
    /\ Returns(hydrate(runKey, now).state, NoState, <<>>, <<>>)
    /\ runKey' = hydrate(runKey, now).stored
    /\ UNCHANGED <<now, histKey, webRunKey, webHistKey, pausedRem, driverVars,
                   modeVars, sessionVars>>

SessionPause ==
    /\ op' = "pause"
    /\ LET p == PauseStep(hydrate(runKey, now).state, now)
       IN  /\ p.write => pauses < MaxPauses
           /\ pauses' = IF p.write THEN pauses + 1 ELSE pauses
    /\ runKey' = pause(runKey, now)
    /\ Returns(NoState, NoState, <<>>, <<>>)
    /\ UNCHANGED <<now, histKey, webRunKey, webHistKey, pausedRem, runningMs,
                   driverVars, modeVars>>

SessionResume ==
    /\ op' = "resume"
    /\ runKey' = resume(runKey, now)
    /\ Returns(NoState, NoState, <<>>, <<>>)
    /\ UNCHANGED <<now, histKey, webRunKey, webHistKey, pausedRem, driverVars,
                   modeVars, sessionVars>>

SessionReset ==
    /\ op' = "reset"
    /\ runKey' = reset
    /\ runningMs' = 0
    /\ pauses' = 0
    /\ Returns(NoState, NoState, <<>>, <<>>)
    /\ UNCHANGED <<now, histKey, webRunKey, webHistKey, pausedRem, driverVars, modeVars>>

SessionNext ==
    \/ SessionTick
    \/ SessionStart
    \/ SessionHydrate
    \/ SessionPause
    \/ SessionResume
    \/ SessionReset

SessionSpec == SessionInit /\ [][SessionNext]_vars

-----------------------------------------------------------------------------
(* src/src/screens/TimerScreen.tsx: the screen driving the store.  Every    *)
(* await is a point where another call may run.  A storage call takes       *)
(* effect when it is issued (getItem captures the payload, setItem stores   *)
(* it); the call that awaits it continues in a later step.                  *)

\* the driver's clock runs for this many half sessions
MaxHalfSessions == 2

\* the instants the driver's clock passes through: the start, the middle and
\* the deadline of a session started at once
DriverTimes == {k * (POMODORO_SECONDS * 500) : k \in 0..MaxHalfSessions}

\* completeSession stops appending once the history holds this many entries
MaxEntries == 2

\* the completion effect (deps: completeSession, isHydrated, remainingSec,
\* status) runs after a render that changed a dep, and calls completeSession
EffectFires(rs, hyd) ==
    /\ \/ hyd # isHydrated
       \/ rs.remainingSec # runState.remainingSec
       \/ rs.status # runState.status
    /\ hyd
    /\ rs.status = "running"
    /\ rs.remainingSec <= 0

\* completeSession up to its first await: active is runStateRef.current, which
\* the effect declared before it has set to the rendered runState
completeSessionCalled(active) ==
    Call("alerting", "complete", NoState,
         Element(TRUE, Missing,
                 IF active.startedAtISO = Null THEN toISOString(now)
                 ELSE active.startedAtISO,
                 toISOString(now), Num(SESSION_DURATION_SEC)),
         <<>>)

\* a render whose completion effect calls completeSession without the test
\* of completionLockRef
Render_noLock(rs, hyd, lock, c) ==
    /\ runState' = rs
    /\ isHydrated' = hyd
    /\ IF EffectFires(rs, hyd)
       THEN completionLockRef' = TRUE /\ comp' = completeSessionCalled(rs)
       ELSE completionLockRef' = lock /\ comp' = c

\* a handler returns having set runState to rs and isHydrated to hyd, the
\* lock being lock and the completion call c; React renders and runs the
\* effects
Render(rs, hyd, lock, c) ==
    /\ runState' = rs
    /\ isHydrated' = hyd
    /\ IF EffectFires(rs, hyd) /\ ~lock
       THEN completionLockRef' = TRUE /\ comp' = completeSessionCalled(rs)
       ELSE completionLockRef' = lock /\ comp' = c

\* the screen mounts on a fresh installation, or on the record of a session
\* started before the application was restarted
DriverInit ==
    /\ now = 0
    /\ runKey \in {AbsentRun, start(0)}
    /\ histKey = AbsentHist
    /\ webRunKey = AbsentRun
    /\ webHistKey = AbsentHist
    /\ op = "init"
    /\ ret = NoState
    /\ webRet = NoState
    /\ got = <<>>
    /\ webGot = <<>>
    /\ pausedRem = -1
    /\ DriverMounted
    /\ NoBreak
    /\ NoAccount

ClockAdvance ==
    /\ \E t \in DriverTimes : t > now /\ now' = t
    /\ UNCHANGED <<runKey, histKey, apiVars, driverVars, restVars>>

\* the setInterval callback of the tick effect
IntervalTick ==
    /\ runState.status = "running"
    /\ runState.endAtEpochMs # Null
    /\ Render([runState EXCEPT
                 !.remainingSec = computeRemainingSec(runState.endAtEpochMs, now)],
              isHydrated, completionLockRef, comp)
    /\ UNCHANGED <<now, runKey, histKey, apiVars, restVars, isModalVisible, errorMessage,
                   mount, fg, ui>>

\* the mount effect's run(): hydrate's getItem resolved
MountRead ==
    /\ mount.pc = "h_read"
    /\ LET h == HydrateStep(mount.cur, now)
       IN  IF h.write
           THEN /\ runKey' = writeRunState(h.state)
                /\ mount' = [mount EXCEPT !.pc = "h_write", !.cur = h.state]
                /\ UNCHANGED <<runState, isHydrated, completionLockRef, comp,
                               errorMessage>>
           ELSE /\ Render(h.state, TRUE, completionLockRef, comp)
                /\ errorMessage' = "null"
                /\ mount' = [NoCall EXCEPT !.pc = "done"]
                /\ UNCHANGED runKey
    /\ UNCHANGED <<now, histKey, apiVars, restVars, isModalVisible, fg, ui>>

\* the mount effect's run(): hydrate's setItem resolved
MountWrite ==
    /\ mount.pc = "h_write"
    /\ Render(mount.cur, TRUE, completionLockRef, comp)
    /\ errorMessage' = "null"
    /\ mount' = [NoCall EXCEPT !.pc = "done"]
    /\ UNCHANGED <<now, runKey, histKey, apiVars, restVars, isModalVisible, fg, ui>>

\* the AppState listener: the app became active, syncFromStorage is called
AppStateActive ==
    /\ fg.pc = "idle"
    /\ fg' = HydrateCalled("sync")
    /\ UNCHANGED <<now, runKey, histKey, apiVars, restVars, runState, isHydrated,
                   completionLockRef, isModalVisible, errorMessage, mount, ui, comp>>

FgRead ==
    /\ fg.pc = "h_read"
    /\ LET h == HydrateStep(fg.cur, now)
       IN  IF h.write
           THEN /\ runKey' = writeRunState(h.state)
                /\ fg' = [fg EXCEPT !.pc = "h_write", !.cur = h.state]
                /\ UNCHANGED <<runState, isHydrated, completionLockRef, comp>>
           ELSE /\ Render(h.state, isHydrated, completionLockRef, comp)
                /\ fg' = NoCall
                /\ UNCHANGED runKey
    /\ UNCHANGED <<now, histKey, apiVars, restVars, isModalVisible, errorMessage, mount, ui>>

FgWrite ==
    /\ fg.pc = "h_write"
    /\ Render(fg.cur, isHydrated, completionLockRef, comp)
    /\ fg' = NoCall
    /\ UNCHANGED <<now, runKey, histKey, apiVars, restVars, isModalVisible, errorMessage,
                   mount, ui>>

\* the primary button starting a session whatever the displayed status
handlePrimary_start ==
    /\ ui.pc = "idle"
    /\ ~isModalVisible
    /\ errorMessage' = "null"
    /\ isModalVisible' = FALSE
    /\ runKey' = start(now)
    /\ ui' = Call("op_done", "start", NoState, NoEntry, <<>>)
    /\ UNCHANGED <<now, histKey, apiVars, restVars, runState, isHydrated,
                   completionLockRef, mount, fg, comp>>

\* the primary button; the completion modal covers it while visible, and one
\* button handler is in flight at a time
handlePrimary ==
    /\ ui.pc = "idle"
    /\ ~isModalVisible
    /\ errorMessage' = "null"
    /\ IF runState.status = "running"
       THEN /\ ui' = HydrateCalled("pause")
            /\ UNCHANGED <<runKey, isModalVisible>>
       ELSE IF runState.status = "paused"
            THEN /\ ui' = HydrateCalled("resume")
                 /\ UNCHANGED <<runKey, isModalVisible>>
            ELSE /\ isModalVisible' = FALSE
                 /\ runKey' = start(now)
                 /\ ui' = Call("op_done", "start", NoState, NoEntry, <<>>)
    /\ UNCHANGED <<now, histKey, apiVars, restVars, runState, isHydrated,
                   completionLockRef, mount, fg, comp>>

\* pause() or resume() after its hydrate() returned current
StoreOp(current) ==
    LET r == IF ui.kind = "pause" THEN PauseStep(current, now)
             ELSE ResumeStep(current, now)
    IN  /\ runKey' = IF r.write THEN writeRunState(r.state) ELSE runKey
        /\ ui' = Call("op_done", ui.kind, NoState, NoEntry, <<>>)

\* pause()/resume(): hydrate's getItem resolved
OpRead ==
    /\ ui.pc = "h_read"
    /\ LET h == HydrateStep(ui.cur, now)
       IN  IF h.write
           THEN /\ runKey' = writeRunState(h.state)
                /\ ui' = [ui EXCEPT !.pc = "h_write", !.cur = h.state]
           ELSE StoreOp(h.state)
    /\ UNCHANGED <<now, histKey, apiVars, restVars, runState, isHydrated, completionLockRef,
                   isModalVisible, errorMessage, mount, fg, comp>>

\* pause()/resume(): hydrate's setItem resolved
OpWrite ==
    /\ ui.pc = "h_write"
    /\ StoreOp(ui.cur)
    /\ UNCHANGED <<now, histKey, apiVars, restVars, runState, isHydrated, completionLockRef,
                   isModalVisible, errorMessage, mount, fg, comp>>

\* a button handler: the store operation and logAnalyticsEvent resolved,
\* syncFromStorage is called
OpDone ==
    /\ ui.pc = "op_done"
    /\ ui' = [HydrateCalled(ui.kind) EXCEPT !.pc = "s_read"]
    /\ UNCHANGED <<now, runKey, histKey, apiVars, restVars, runState, isHydrated,
                   completionLockRef, isModalVisible, errorMessage, mount, fg, comp>>

SyncRead ==
    /\ ui.pc = "s_read"
    /\ LET h == HydrateStep(ui.cur, now)
       IN  IF h.write
           THEN /\ runKey' = writeRunState(h.state)
                /\ ui' = [ui EXCEPT !.pc = "s_write", !.cur = h.state]
                /\ UNCHANGED <<runState, isHydrated, completionLockRef, comp>>
           ELSE /\ Render(h.state, isHydrated, completionLockRef, comp)
                /\ ui' = NoCall
                /\ UNCHANGED runKey
    /\ UNCHANGED <<now, histKey, apiVars, restVars, isModalVisible, errorMessage, mount, fg>>

SyncWrite ==
    /\ ui.pc = "s_write"
    /\ Render(ui.cur, isHydrated, completionLockRef, comp)
    /\ ui' = NoCall
    /\ UNCHANGED <<now, runKey, histKey, apiVars, restVars, isModalVisible, errorMessage,
                   mount, fg>>

resetDisabled ==
    runState.status = "idle" /\ runState.remainingSec = POMODORO_SECONDS

\* the Reset button
handleReset ==
    /\ ui.pc = "idle"
    /\ ~isModalVisible
    /\ ~resetDisabled
    /\ runKey' = reset
    /\ ui' = Call("op_done", "reset", NoState, NoEntry, <<>>)
    /\ UNCHANGED <<now, histKey, apiVars, restVars, runState, isHydrated, completionLockRef,
                   isModalVisible, errorMessage, mount, fg, comp>>

dismissModal ==
    /\ isModalVisible
    /\ isModalVisible' = FALSE
    /\ UNCHANGED <<now, runKey, histKey, apiVars, restVars, runState, isHydrated,
                   completionLockRef, errorMessage, mount, fg, ui, comp>>

\* the modal's next-session button
handleNextSession ==
    /\ ui.pc = "idle"
    /\ isModalVisible
    /\ isModalVisible' = FALSE
    /\ errorMessage' = "null"
    /\ runKey' = start(now)
    /\ ui' = Call("op_done", "next", NoState, NoEntry, <<>>)
    /\ UNCHANGED <<now, histKey, apiVars, restVars, runState, isHydrated, completionLockRef,
                   mount, fg, comp>>

\* completeSession: the notification and the chime resolved (neither throws);
\* historyRepo.append is called with the id of this millisecond
CompAlerted ==
    /\ comp.pc = "alerting"
    /\ comp' = [comp EXCEPT !.pc = "a_read",
                            !.entry = [comp.entry EXCEPT !.id = msString(now)],
                            !.hist = readHistory(histKey)]
    /\ UNCHANGED <<now, runKey, histKey, apiVars, restVars, runState, isHydrated,
                   completionLockRef, isModalVisible, errorMessage, mount, fg, ui>>

\* append: readHistory resolved, the new array is stored
CompAppendRead ==
    /\ comp.pc = "a_read"
    /\ Len(comp.hist) < MaxEntries
    /\ histKey' = AppendStep(comp.hist, comp.entry)
    /\ comp' = [comp EXCEPT !.pc = "a_write", !.hist = <<>>]
    /\ UNCHANGED <<now, runKey, apiVars, restVars, runState, isHydrated, completionLockRef,
                   isModalVisible, errorMessage, mount, fg, ui>>

\* completeSession: append, logAnalyticsEvent and loadHistory resolved; the
\* finally block calls timerStore.reset()
CompAppended ==
    /\ comp.pc = "a_write"
    /\ errorMessage' = "null"
    /\ runKey' = reset
    /\ comp' = [comp EXCEPT !.pc = "resetting"]
    /\ UNCHANGED <<now, histKey, apiVars, restVars, runState, isHydrated, completionLockRef,
                   isModalVisible, mount, fg, ui>>

\* completeSession: reset resolved, syncFromStorage is called
CompReset ==
    /\ comp.pc = "resetting"
    /\ comp' = [comp EXCEPT !.pc = "s_read", !.cur = readRunState(runKey)]
    /\ UNCHANGED <<now, runKey, histKey, apiVars, restVars, runState, isHydrated,
                   completionLockRef, isModalVisible, errorMessage, mount, fg, ui>>

CompSyncRead ==
    /\ comp.pc = "s_read"
    /\ LET h == HydrateStep(comp.cur, now)
       IN  IF h.write
           THEN /\ runKey' = writeRunState(h.state)
                /\ comp' = [comp EXCEPT !.pc = "s_write", !.cur = h.state]
                /\ UNCHANGED <<runState, isHydrated, completionLockRef,
                               isModalVisible>>
           ELSE /\ Render(h.state, isHydrated, FALSE, NoCall)
                /\ isModalVisible' = TRUE
                /\ UNCHANGED runKey
    /\ UNCHANGED <<now, histKey, apiVars, restVars, errorMessage, mount, fg, ui>>

\* completeSession: syncFromStorage resolved; the modal opens and the lock
\* is released
CompSyncWrite ==
    /\ comp.pc = "s_write"
    /\ Render(comp.cur, isHydrated, FALSE, NoCall)
    /\ isModalVisible' = TRUE
    /\ UNCHANGED <<now, runKey, histKey, apiVars, restVars, errorMessage, mount, fg, ui>>

DriverNext ==
    \/ ClockAdvance
    \/ IntervalTick
    \/ MountRead
    \/ MountWrite
    \/ AppStateActive
    \/ FgRead
    \/ FgWrite
    \/ handlePrimary
    \/ OpRead
    \/ OpWrite
    \/ OpDone
    \/ SyncRead
    \/ SyncWrite
    \/ handleReset
    \/ dismissModal
    \/ handleNextSession
    \/ CompAlerted
    \/ CompAppendRead
    \/ CompAppended
    \/ CompReset
    \/ CompSyncRead
    \/ CompSyncWrite

DriverSpec == DriverInit /\ [][DriverNext]_vars

\* the interval fires while it is installed, and every pending promise of a
\* storage call, a notification, a chime or an analytics event settles; the
\* clock, the AppState events and the buttons are under no obligation
LiveSpec ==
    /\ DriverSpec
    /\ WF_vars(IntervalTick)
    /\ WF_vars(MountRead) /\ WF_vars(MountWrite)
    /\ WF_vars(FgRead) /\ WF_vars(FgWrite)
    /\ WF_vars(OpRead) /\ WF_vars(OpWrite) /\ WF_vars(OpDone)
    /\ WF_vars(SyncRead) /\ WF_vars(SyncWrite)
    /\ WF_vars(CompAlerted) /\ WF_vars(CompAppendRead) /\ WF_vars(CompAppended)
    /\ WF_vars(CompReset) /\ WF_vars(CompSyncRead) /\ WF_vars(CompSyncWrite)

-----------------------------------------------------------------------------
(* src/unnamed/part_007: the screen with a focus timer and a break timer.   *)
(* The focus timer is the persisted run state, the break timer the screen's *)
(* breakState.  The primary and reset buttons share the slot ui, the mode   *)
(* buttons have modeCall, the modal's next-session button nextCall.         *)

\* the clock advances by this many ms while the buttons are pressed
ModeTick == 1000

SessionModes == {"focus", "short_break", "long_break"}

\* the history after the session started at 0 completed at its deadline
FirstCompleted ==
    AppendStep(<<>>, SessionEntry(msString(POMODORO_SECONDS * 1000), toISOString(0),
                                  toISOString(POMODORO_SECONDS * 1000)))

\* the screen just mounted, or showing the modal of its first completion
ModeInit ==
    /\ webRunKey = AbsentRun
    /\ webHistKey = AbsentHist
    /\ op = "init"
    /\ ret = NoState
    /\ webRet = NoState
    /\ got = <<>>
    /\ webGot = <<>>
    /\ pausedRem = -1
    /\ NoBreak
    /\ NoAccount
    /\ \/ /\ now = 0
          /\ runKey \in {AbsentRun, start(0)}
          /\ histKey = AbsentHist
          /\ DriverMounted
       \/ /\ now = POMODORO_SECONDS * 1000
          /\ runKey = reset
          /\ histKey = FirstCompleted
          /\ runState = createIdleState
          /\ isHydrated = TRUE
          /\ completionLockRef = FALSE
          /\ isModalVisible = TRUE
          /\ errorMessage = "null"
          /\ mount = [NoCall EXCEPT !.pc = "done"]
          /\ fg = NoCall
          /\ ui = NoCall
          /\ comp = NoCall

ModeClockAdvance ==
    /\ now \in {0, POMODORO_SECONDS * 1000}
    /\ now' = now + ModeTick
    /\ UNCHANGED <<runKey, histKey, apiVars, driverVars, restVars>>

\* handleModeSelect after its reset: the break timer is recreated and the
\* mode selected
ModeSelected(nextMode) ==
    /\ breakState' = IF nextMode = "focus" THEN createBreakState(breakState.mode)
                     ELSE createBreakState(nextMode)
    /\ selectedMode' = nextMode

\* a mode button; the modal covers the buttons while visible
handleModeSelect ==
    /\ modeCall.pc = "idle"
    /\ ~isModalVisible
    /\ \E nextMode \in SessionModes :
         /\ nextMode # selectedMode
         /\ errorMessage' = "null"
         /\ isModalVisible' = FALSE
         /\ IF runState.status # "idle"
            THEN /\ runKey' = reset
                 /\ modeCall' = Call("op_done", nextMode, NoState, NoEntry, <<>>)
                 /\ UNCHANGED <<breakState, selectedMode>>
            ELSE /\ ModeSelected(nextMode)
                 /\ UNCHANGED <<runKey, modeCall>>
    /\ UNCHANGED <<now, histKey, apiVars, sessionVars, nextCall, runState, isHydrated,
                   completionLockRef, mount, fg, ui, comp>>

\* handleModeSelect: reset resolved, syncFromStorage is called
ModeSelectReset ==
    /\ modeCall.pc = "op_done"
    /\ modeCall' = [HydrateCalled(modeCall.kind) EXCEPT !.pc = "s_read"]
    /\ UNCHANGED <<now, runKey, histKey, apiVars, sessionVars, driverVars, breakState,
                   selectedMode, nextCall>>

\* handleModeSelect: syncFromStorage's getItem resolved
ModeSelectSyncRead ==
    /\ modeCall.pc = "s_read"
    /\ LET h == HydrateStep(modeCall.cur, now)
       IN  IF h.write
           THEN /\ runKey' = writeRunState(h.state)
                /\ modeCall' = [modeCall EXCEPT !.pc = "s_write", !.cur = h.state]
                /\ UNCHANGED <<runState, isHydrated, completionLockRef, comp,
                               breakState, selectedMode>>
           ELSE /\ Render(h.state, isHydrated, completionLockRef, comp)
                /\ ModeSelected(modeCall.kind)
                /\ modeCall' = NoCall
                /\ UNCHANGED runKey
    /\ UNCHANGED <<now, histKey, apiVars, sessionVars, nextCall, isModalVisible,
                   errorMessage, mount, fg, ui>>

\* handleModeSelect: syncFromStorage's setItem resolved
ModeSelectSyncWrite ==
    /\ modeCall.pc = "s_write"
    /\ Render(modeCall.cur, isHydrated, completionLockRef, comp)
    /\ ModeSelected(modeCall.kind)
    /\ modeCall' = NoCall
    /\ UNCHANGED <<now, runKey, histKey, apiVars, sessionVars, nextCall, isModalVisible,
                   errorMessage, mount, fg, ui>>

\* the primary button, up to its first await
handlePrimaryPress ==
    /\ ui.pc = "idle"
    /\ ~isModalVisible
    /\ errorMessage' = "null"
    /\ IF selectedMode = "focus"
       THEN /\ IF runState.status = "running"
               THEN /\ ui' = HydrateCalled("pause")
                    /\ UNCHANGED isModalVisible
               ELSE IF runState.status = "paused"
                    THEN /\ ui' = Call("permit", "resume", NoState, NoEntry, <<>>)
                         /\ UNCHANGED isModalVisible
                    ELSE /\ isModalVisible' = FALSE
                         /\ ui' = Call("permit", "start", NoState, NoEntry, <<>>)
            /\ UNCHANGED breakState
       ELSE /\ IF breakState.status = "running"
               THEN /\ breakState' = [breakState EXCEPT !.endAtEpochMs = Null,
                                                        !.status = "paused"]
                    /\ UNCHANGED ui
               ELSE IF breakState.status = "paused"
                    THEN /\ ui' = Call("permit", "break_resume", NoState, NoEntry, <<>>)
                         /\ UNCHANGED breakState
                    ELSE /\ ui' = Call("permit", selectedMode, NoState, NoEntry, <<>>)
                         /\ UNCHANGED breakState
            /\ UNCHANGED isModalVisible
    /\ UNCHANGED <<now, runKey, histKey, apiVars, sessionVars, selectedMode, modeCall,
                   nextCall, runState, isHydrated, completionLockRef, mount, fg, comp>>

\* handlePrimaryPress: ensureBrowserAlarmPermissionAsync resolved
PrimaryPermitted ==
    /\ ui.pc = "permit"
    /\ IF ui.kind = "start"
       THEN /\ runKey' = start(now)
            /\ ui' = Call("op_done", "start", NoState, NoEntry, <<>>)
            /\ UNCHANGED breakState
       ELSE IF ui.kind = "resume"
            THEN /\ ui' = HydrateCalled("resume")
                 /\ UNCHANGED <<runKey, breakState>>
            ELSE IF ui.kind = "break_resume"
                 THEN /\ breakState' =
                           [breakState EXCEPT
                              !.endAtEpochMs = Num(now + breakState.remainingSec * 1000),
                              !.status = "running"]
                      /\ ui' = NoCall
                      /\ UNCHANGED runKey
                 ELSE /\ breakState' =
                           BreakRunState(Num(now + getBreakDuration(ui.kind) * 1000),
                                         ui.kind, getBreakDuration(ui.kind), "running")
                      /\ ui' = NoCall
                      /\ UNCHANGED runKey
    /\ UNCHANGED <<now, histKey, apiVars, sessionVars, selectedMode, modeCall, nextCall,
                   runState, isHydrated, completionLockRef, isModalVisible, errorMessage,
                   mount, fg, comp>>

modeResetDisabled ==
    IF selectedMode = "focus"
    THEN runState.status = "idle" /\ runState.remainingSec = SESSION_DURATION_SEC
    ELSE /\ breakState.status = "idle"
         /\ breakState.remainingSec = getBreakDuration(selectedMode)

\* the Reset button
handleResetPress ==
    /\ ui.pc = "idle"
    /\ ~isModalVisible
    /\ ~modeResetDisabled
    /\ errorMessage' = "null"
    /\ IF selectedMode = "focus"
       THEN /\ runKey' = reset
            /\ ui' = Call("op_done", "reset", NoState, NoEntry, <<>>)
            /\ UNCHANGED breakState
       ELSE /\ breakState' = createBreakState(selectedMode)
            /\ UNCHANGED <<runKey, ui>>
    /\ UNCHANGED <<now, histKey, apiVars, sessionVars, selectedMode, modeCall, nextCall,
                   runState, isHydrated, completionLockRef, isModalVisible, mount, fg,
                   comp>>

\* the modal's next-session button, up to its first await
handleStartNextSession ==
    /\ nextCall.pc = "idle"
    /\ isModalVisible
    /\ isModalVisible' = FALSE
    /\ selectedMode' = "focus"
    /\ breakState' = createBreakState(breakState.mode)
    /\ nextCall' = Call("permit", "next", NoState, NoEntry, <<>>)
    /\ UNCHANGED <<now, runKey, histKey, apiVars, sessionVars, modeCall, runState,
                   isHydrated, completionLockRef, errorMessage, mount, fg, ui, comp>>

\* handleStartNextSession: the permission resolved, start() is called
NextPermitted ==
    /\ nextCall.pc = "permit"
    /\ runKey' = start(now)
    /\ nextCall' = [nextCall EXCEPT !.pc = "op_done"]
    /\ UNCHANGED <<now, histKey, apiVars, sessionVars, driverVars, breakState,
                   selectedMode, modeCall>>

\* handleStartNextSession: start resolved, syncFromStorage is called
NextStarted ==
    /\ nextCall.pc = "op_done"
    /\ nextCall' = [HydrateCalled("next") EXCEPT !.pc = "s_read"]
    /\ UNCHANGED <<now, runKey, histKey, apiVars, sessionVars, driverVars, breakState,
                   selectedMode, modeCall>>

NextSyncRead ==
    /\ nextCall.pc = "s_read"
    /\ LET h == HydrateStep(nextCall.cur, now)
       IN  IF h.write
           THEN /\ runKey' = writeRunState(h.state)
                /\ nextCall' = [nextCall EXCEPT !.pc = "s_write", !.cur = h.state]
                /\ UNCHANGED <<runState, isHydrated, completionLockRef, comp>>
           ELSE /\ Render(h.state, isHydrated, completionLockRef, comp)
                /\ nextCall' = NoCall
                /\ UNCHANGED runKey
    /\ UNCHANGED <<now, histKey, apiVars, sessionVars, breakState, selectedMode, modeCall,
                   isModalVisible, errorMessage, mount, fg, ui>>

NextSyncWrite ==
    /\ nextCall.pc = "s_write"
    /\ Render(nextCall.cur, isHydrated, completionLockRef, comp)
    /\ nextCall' = NoCall
    /\ UNCHANGED <<now, runKey, histKey, apiVars, sessionVars, breakState, selectedMode,
                   modeCall, isModalVisible, errorMessage, mount, fg, ui>>

ModeNext ==
    \/ ModeClockAdvance
    \/ MountRead
    \/ MountWrite
    \/ handleModeSelect
    \/ ModeSelectReset
    \/ ModeSelectSyncRead
    \/ ModeSelectSyncWrite
    \/ handlePrimaryPress
    \/ PrimaryPermitted
    \/ OpRead
    \/ OpWrite
    \/ OpDone
    \/ SyncRead
    \/ SyncWrite
    \/ handleResetPress
    \/ dismissModal
    \/ handleStartNextSession
    \/ NextPermitted
    \/ NextStarted
    \/ NextSyncRead
    \/ NextSyncWrite

ModeSpec == ModeInit /\ [][ModeNext]_vars

-----------------------------------------------------------------------------
(* src/components/timer-panel.tsx: the panel over the localStorage store.   *)
(* Its handlers and effects are synchronous: a handler, the render after it *)
(* and the effects of that render are one step.  localStorage.setItem may   *)
(* throw (quota, storage disabled) in the completion sequence.              *)

panelRest ==
    <<runKey, histKey, ret, webRet, got, webGot, pausedRem, modeCall, nextCall,
      sessionVars, mount, fg, ui>>

\* an exception left an effect: React has unmounted the panel
Unmounted == [NoCall EXCEPT !.pc = "threw"]

PanelAlive == comp # Unmounted

SAVE_FAILED == "Session finished, but history save failed."

PanelInit ==
    /\ now = 0
    /\ runKey = AbsentRun
    /\ histKey = AbsentHist
    /\ webRunKey \in {AbsentRun, webStart(0)}
    /\ webHistKey = AbsentHist
    /\ op = "init"
    /\ ret = NoState
    /\ webRet = NoState
    /\ got = <<>>
    /\ webGot = <<>>
    /\ pausedRem = -1
    /\ DriverUnmounted
    /\ NoBreak
    /\ NoAccount

\* the break completion effect (deps: remainingSec, status,
\* completeBreakSession, isHydrated)
BreakEffectFires(bs, hyd) ==
    /\ \/ hyd # isHydrated
       \/ bs.remainingSec # breakState.remainingSec
       \/ bs.status # breakState.status
    /\ hyd
    /\ bs.status = "running"
    /\ bs.remainingSec <= 0

\* completeFocusSession, called by the completion effect with the lock free:
\* playChime catches its own errors; append's setItem and reset's setItem
\* may throw, and what reset throws leaves the function and the effect
completeFocusSession(key, rs, err, appendFails, resetFails) ==
    /\ webHistKey' =
         IF appendFails THEN webHistKey
         ELSE webAppend(webHistKey,
                        SessionEntry(msString(now),
                                     IF rs.startedAtISO = Null THEN toISOString(now)
                                     ELSE rs.startedAtISO,
                                     toISOString(now)))
    /\ op' = IF appendFails THEN "complete_append_failed" ELSE "complete"
    /\ errorMessage' = IF appendFails THEN SAVE_FAILED ELSE "null"
    /\ IF resetFails
       THEN /\ webRunKey' = key
            /\ runState' = rs
            /\ completionLockRef' = TRUE
            /\ isModalVisible' = FALSE
            /\ comp' = Unmounted
       ELSE /\ webRunKey' = webReset
            /\ runState' = webHydrate(webReset, now).state
            /\ completionLockRef' = FALSE
            /\ isModalVisible' = TRUE
            /\ comp' = NoCall

\* a handler or callback of the panel has stored key and set rs, hyd, bs,
\* modal and err: React renders and runs the completion effects
PanelRender(key, rs, hyd, bs, modal, err, label) ==
    LET breakDone == BreakEffectFires(bs, hyd) /\ ~completionLockRef
    IN  /\ isHydrated' = hyd
        /\ breakState' = IF breakDone THEN createBreakState(bs.mode) ELSE bs
        /\ IF EffectFires(rs, hyd) /\ ~completionLockRef
           THEN \E appendFails, resetFails \in BOOLEAN :
                  completeFocusSession(key, rs, err, appendFails, resetFails)
           ELSE /\ webRunKey' = key
                /\ runState' = rs
                /\ isModalVisible' = (modal \/ breakDone)
                /\ errorMessage' = err
                /\ op' = label
                /\ UNCHANGED <<webHistKey, completionLockRef, comp>>

PanelClockAdvance ==
    /\ \E t \in DriverTimes : t > now /\ now' = t
    /\ op' = "clock"
    /\ UNCHANGED <<webRunKey, webHistKey, driverVars, breakState, selectedMode, panelRest>>

\* the mount effect
PanelMount ==
    /\ PanelAlive
    /\ ~isHydrated
    /\ LET h == webHydrate(webRunKey, now)
       IN  PanelRender(h.stored, h.state, TRUE, breakState, isModalVisible,
                       errorMessage, "mount")
    /\ UNCHANGED <<now, selectedMode, panelRest>>

\* the visibilitychange listener
PanelVisible ==
    /\ PanelAlive
    /\ isHydrated
    /\ LET h == webHydrate(webRunKey, now)
       IN  PanelRender(h.stored, h.state, isHydrated, breakState, isModalVisible,
                       errorMessage, "visible")
    /\ UNCHANGED <<now, selectedMode, panelRest>>

\* the interval of the focus timer
PanelFocusTick ==
    /\ PanelAlive
    /\ runState.status = "running"
    /\ runState.endAtEpochMs # Null
    /\ PanelRender(webRunKey,
                   [runState EXCEPT
                      !.remainingSec = computeRemainingSec(runState.endAtEpochMs, now)],
                   isHydrated, breakState, isModalVisible, errorMessage, "tick")
    /\ UNCHANGED <<now, selectedMode, panelRest>>

\* the interval of the break timer
PanelBreakTick ==
    /\ PanelAlive
    /\ breakState.status = "running"
    /\ breakState.endAtEpochMs # Null
    /\ PanelRender(webRunKey, runState, isHydrated,
                   [breakState EXCEPT
                      !.remainingSec =
                         Max(0, CeilDiv(breakState.endAtEpochMs.n - now, 1000))],
                   isModalVisible, errorMessage, "break_tick")
    /\ UNCHANGED <<now, selectedMode, panelRest>>

\* a mode button; the modal's overlay covers the buttons while visible
PanelModeSelect ==
    /\ PanelAlive
    /\ isHydrated
    /\ ~isModalVisible
    /\ \E nextMode \in SessionModes :
         /\ nextMode # selectedMode
         /\ selectedMode' = nextMode
         /\ PanelRender(IF runState.status # "idle" THEN webReset ELSE webRunKey,
                        IF runState.status # "idle"
                        THEN webHydrate(webReset, now).state ELSE runState,
                        isHydrated,
                        IF nextMode = "focus" THEN createBreakState(breakState.mode)
                        ELSE createBreakState(nextMode),
                        FALSE, "null", "mode")
    /\ UNCHANGED <<now, panelRest>>

\* the primary button
PanelPrimaryPress ==
    /\ PanelAlive
    /\ isHydrated
    /\ ~isModalVisible
    /\ IF selectedMode = "focus"
       THEN LET called == IF runState.status = "running" THEN webPause(webRunKey, now)
                          ELSE IF runState.status = "paused"
                               THEN webResume(webRunKey, now)
                               ELSE webStart(now)
                h == webHydrate(called, now)
            IN  PanelRender(h.stored, h.state, isHydrated, breakState, FALSE, "null",
                            "primary")
       ELSE PanelRender(webRunKey, runState, isHydrated,
                        IF breakState.status = "running"
                        THEN [breakState EXCEPT !.endAtEpochMs = Null,
                                                !.status = "paused"]
                        ELSE IF breakState.status = "paused"
                             THEN [breakState EXCEPT
                                     !.endAtEpochMs =
                                        Num(now + breakState.remainingSec * 1000),
                                     !.status = "running"]
                             ELSE BreakRunState(
                                    Num(now + getBreakDuration(selectedMode) * 1000),
                                    selectedMode, getBreakDuration(selectedMode),
                                    "running"),
                        FALSE, "null", "primary")
    /\ UNCHANGED <<now, selectedMode, panelRest>>

\* the Reset button
PanelResetPress ==
    /\ PanelAlive
    /\ isHydrated
    /\ ~isModalVisible
    /\ ~modeResetDisabled
    /\ IF selectedMode = "focus"
       THEN PanelRender(webReset, webHydrate(webReset, now).state, isHydrated,
                        breakState, FALSE, "null", "reset")
       ELSE PanelRender(webRunKey, runState, isHydrated,
                        createBreakState(selectedMode), FALSE, "null", "reset")
    /\ UNCHANGED <<now, selectedMode, panelRest>>

\* the modal's overlay or its close button
PanelDismiss ==
    /\ PanelAlive
    /\ isModalVisible
    /\ PanelRender(webRunKey, runState, isHydrated, breakState, FALSE, errorMessage,
                   "dismiss")
    /\ UNCHANGED <<now, selectedMode, panelRest>>

\* the modal's next-session button
PanelStartNextSession ==
    /\ PanelAlive
    /\ isModalVisible
    /\ selectedMode' = "focus"
    /\ LET h == webHydrate(webStart(now), now)
       IN  PanelRender(h.stored, h.state, isHydrated,
                       createBreakState(breakState.mode), FALSE, errorMessage, "next")
    /\ UNCHANGED <<now, panelRest>>

PanelNext ==
    \/ PanelClockAdvance
    \/ PanelMount
    \/ PanelVisible
    \/ PanelFocusTick
    \/ PanelBreakTick
    \/ PanelModeSelect
    \/ PanelPrimaryPress
    \/ PanelResetPress
    \/ PanelDismiss
    \/ PanelStartNextSession

PanelSpec == PanelInit /\ [][PanelNext]_vars

-----------------------------------------------------------------------------
(* Properties *)

\* the stored record is a Running record with a deadline: the four properties
\* have the types of PersistedRunState
IsRunningRecord(p) ==
    /\ p.kind = "object"
    /\ p.status = Str("running")
    /\ IsString(p.startedAtISO) \/ p.startedAtISO = Null
    /\ IsNumber(p.endAtEpochMs) /\ IsFinite(p.endAtEpochMs)

\* the stored record says Running and has no usable deadline
IsRunningNoDeadline(p) ==
    /\ p.kind = "object"
    /\ p.status = Str("running")
    /\ IsString(p.startedAtISO) \/ p.startedAtISO = Null
    /\ ~(IsNumber(p.endAtEpochMs) /\ IsFinite(p.endAtEpochMs))
    /\ IsNumber(p.remainingSec) /\ IsFinite(p.remainingSec) /\ p.remainingSec.f = 0

\* endAt - t in tenths of a millisecond
Delta10(endAt, t) == 10 * (endAt.n - t) + endAt.f

\* clamp(ceil((endAt - t)/1000), 0, 1500), from the definition of the ceiling
ClampCeilSeconds(endAt, t) ==
    IF Delta10(endAt, t) <= 0 THEN 0
    ELSE IF Delta10(endAt, t) > 10000 * 1499 THEN 1500
         ELSE CHOOSE k \in 1..1500 :
                10000 * (k - 1) < Delta10(endAt, t) /\ Delta10(endAt, t) <= 10000 * k

\* the RunState invariant of a state held in memory
RunStateInvariant(state) ==
    /\ state.status = "running" => state.endAtEpochMs # Null
    /\ state.status = "idle" =>
         /\ state.startedAtISO = Null
         /\ state.endAtEpochMs = Null
         /\ state.remainingSec = 1500

\* the RunState invariant of a stored record
RecordInvariant(p) ==
    /\ p.kind = "object"
    /\ p.status = Str("running") => p.endAtEpochMs \notin {Null, Missing}
    /\ p.status = Str("idle") =>
         /\ p.startedAtISO = Null
         /\ p.endAtEpochMs = Null
         /\ p.remainingSec = Num(1500)

\* C3: every state hydrate() returns, and every record start(), pause(),
\* resume() or reset() writes, from any stored payload, satisfies the RunState
\* invariant: Running has a deadline, Idle has no timestamps and 1500 s left.
\* Stated of both stores.
C3_RunStateInvariant ==
    [][/\ op' = "hydrate" => RunStateInvariant(ret') /\ RunStateInvariant(webRet')
       /\ op' \in {"start", "pause", "resume", "reset"} =>
            /\ runKey' # runKey => RecordInvariant(runKey')
            /\ webRunKey' # webRunKey => RecordInvariant(webRunKey')]_storeVars

\* C4: hydrate() of a stored Running record with deadline endAt, at time now,
\* returns remainingSec = clamp(ceil((endAt - now)/1000), 0, 1500), writes the
\* returned record back, and keeps status, startedAt and endAt.
C4_HydrationFormula ==
    [][(op' = "hydrate" /\ IsRunningRecord(runKey)) =>
         /\ ret'.remainingSec = ClampCeilSeconds(runKey.endAtEpochMs, now)
         /\ ret'.status = "running"
         /\ ret'.startedAtISO = runKey.startedAtISO
         /\ ret'.endAtEpochMs = runKey.endAtEpochMs
         /\ runKey' = RunPayload("object", Str("running"), runKey.startedAtISO,
                                 runKey.endAtEpochMs, Num(ret'.remainingSec))]_storeVars

\* C4 witness: a hydrate of a running session mid-second, rounded up
C4_Witness ==
    /\ op = "hydrate"
    /\ ret.status = "running"
    /\ ret.remainingSec \in 1..1499
    /\ (ret.endAtEpochMs.n - now) % 1000 # 0

\* C5: past the deadline hydrate() of a Running record returns Running with
\* nothing remaining, leaves the record Running and writes no history; no
\* passage of time, hydrate, getAll or append takes the record out of Running;
\* an append makes getAll one entry longer, and after reset() hydrate()
\* returns the idle state.
C5_NeverLeavesRunning ==
    [][/\ (op' = "hydrate" /\ IsRunningRecord(runKey)
            /\ Delta10(runKey.endAtEpochMs, now) <= 0) =>
            /\ ret'.status = "running"
            /\ ret'.remainingSec = 0
            /\ histKey' = histKey
       /\ (IsRunningRecord(runKey) /\ op' \in {"tick", "hydrate", "getAll", "append"}) =>
            IsRunningRecord(runKey')
       /\ op' = "append" => Len(getAll(histKey')) = Len(getAll(histKey)) + 1
       /\ op' = "reset" => hydrate(runKey', now').state = createIdleState]_storeVars

\* C5 witness: the expiry was appended, the store reset, and hydrate reports idle
C5_Witness ==
    /\ op = "hydrate"
    /\ ret = createIdleState
    /\ Len(getAll(histKey)) = 1
    /\ getAll(histKey)[1].completedAtISO = toISOString(1500000)

\* C6: once pause() has stored remainingSec = r, every hydrate(), at any later
\* time, returns Paused with remainingSec = r.
C6_PausedNoDrift ==
    (op = "hydrate" /\ pausedRem >= 0) =>
        /\ ret.status = "paused"
        /\ ret.remainingSec = pausedRem

\* C6 witness: paused mid-session, hydrated a session's length later
C6_Witness ==
    /\ op = "hydrate"
    /\ pausedRem \in 1..1499
    /\ ret.remainingSec = pausedRem
    /\ now = 3000000

\* C7: with a run-state payload that is not JSON, or JSON that is no object,
\* hydrate() returns the idle state; with a history payload that is not JSON,
\* or JSON that is no array, getAll() returns no entries.
C7_CorruptStorage ==
    [][/\ (op' = "hydrate" /\ runKey.kind \in {"garbage", "scalar"}) =>
            ret' = createIdleState
       /\ (op' = "getAll" /\ histKey.kind \in {"garbage", "scalar"}) =>
            got' = <<>>]_storeVars

\* C7 witness: hydrate ran on payloads that are not JSON
C7_Witness ==
    /\ op = "hydrate"
    /\ runKey.kind = "garbage"
    /\ histKey.kind = "garbage"
    /\ ret = createIdleState

\* C8: a stored Running record without a finite numeric endAt is returned by
\* hydrate() as Paused, with endAt null, the stored startedAt and the stored
\* remainingSec clamped to [0, 1500].  Stated of both stores.
C8_CorruptRunningDegrades ==
    [][op' = "hydrate" =>
         /\ IsRunningNoDeadline(runKey) =>
              ret' = RunState("paused", runKey.startedAtISO, Null,
                              Min(1500, Max(0, runKey.remainingSec.n)))
         /\ IsRunningNoDeadline(webRunKey) =>
              webRet' = RunState("paused", webRunKey.startedAtISO, Null,
                                 Min(1500, Max(0, webRunKey.remainingSec.n)))]_storeVars

\* the entries have pairwise distinct completedAt
DistinctCompletedAt(entries) ==
    \A i, j \in DOMAIN entries :
        i # j => entries[i].completedAtISO # entries[j].completedAtISO

\* strictly descending by completedAt
NewestFirst(entries) ==
    \A i, j \in DOMAIN entries :
        i < j => DateParse(entries[i].completedAtISO) > DateParse(entries[j].completedAtISO)

\* C9: when the appended entries have pairwise distinct completedAt, getAll()
\* returns them strictly descending by completedAt, and the array append()
\* stored is in that order.
C9_HistoryOrdering ==
    /\ (op = "append" /\ DistinctCompletedAt(getAll(histKey))) =>
          /\ NewestFirst(getAll(histKey))
          /\ histKey.items = getAll(histKey)
    /\ (op = "getAll" /\ DistinctCompletedAt(got)) => NewestFirst(got)

\* C9 witness: three entries with distinct completedAt were appended
C9_Witness ==
    /\ op = "append"
    /\ Len(histKey.items) = 3
    /\ DistinctCompletedAt(histKey.items)

-----------------------------------------------------------------------------
(* Properties of the screen driving the store *)

\* C1: no duplicate session record: under every interleaving of the tick, the
\* foreground re-hydration, the completion effect and the button handlers, the
\* persisted history never holds two entries for one session (one start(),
\* identified by its startedAtISO)
C1_NoDuplicateRecord ==
    \A i, j \in 1..Len(readHistory(histKey)) :
        readHistory(histKey)[i].startedAtISO = readHistory(histKey)[j].startedAtISO
            => i = j

\* the Reset button or a start button has just issued its store call
ExplicitResetOrStart ==
    ui.pc = "op_done" /\ ui.kind \in {"reset", "start", "next"}

\* the persisted history holds an entry for the session started at iso
Recorded(iso) ==
    \E i \in 1..Len(readHistory(histKey)) : readHistory(histKey)[i].startedAtISO = iso

\* the screen is hydrated, has no call in flight and shows the session started
\* at iso as Running, and the persisted record is the Running record of that
\* session with its deadline reached
DeadlineReached(iso) ==
    /\ isHydrated
    /\ mount.pc = "done" /\ fg.pc = "idle" /\ ui.pc = "idle" /\ comp.pc = "idle"
    /\ runState.status = "running"
    /\ runState.startedAtISO = iso
    /\ runKey.kind = "object"
    /\ runKey.status = Str("running")
    /\ runKey.startedAtISO = iso
    /\ IsNumber(runKey.endAtEpochMs)
    /\ runKey.endAtEpochMs.n <= now

\* C2: no lost session record: once the persisted state is Running and the
\* clock has reached its deadline with the screen mounted, hydrated, at rest
\* and showing that session, then,
\* the tick and the pending async steps being scheduled fairly, eventually an
\* entry for that session is in the history, unless the user explicitly
\* resets or starts
C2_NoLostRecord ==
    DeadlineReached(toISOString(0)) ~> (Recorded(toISOString(0)) \/ ExplicitResetOrStart)

\* C10: history id uniqueness: with the completion driver deriving each id
\* from the millisecond clock, the persisted history never holds two entries
\* with the same id
C10_UniqueIds ==
    \A i, j \in 1..Len(readHistory(histKey)) :
        readHistory(histKey)[i].id = readHistory(histKey)[j].id => i = j

-----------------------------------------------------------------------------
(* Properties of the store operations, one call at a time *)

\* the number of occurrences of x in the sequence
Count(entries, x) == Cardinality({i \in DOMAIN entries : entries[i] = x})

\* after is before with one more occurrence of e: every element, compared
\* field for field, occurs as often as before, e once more
PlusOne(before, after, e) ==
    /\ Len(after) = Len(before) + 1
    /\ \A i \in DOMAIN after :
         Count(after, after[i]) = Count(before, after[i]) + (IF after[i] = e THEN 1 ELSE 0)

\* C11: append(e) is pure insertion: getAll() after the call returns what it
\* returned before plus one occurrence of e, every earlier entry unchanged,
\* even when an entry with e's id is already there.  Stated of both
\* repositories.
C11_AppendPureInsertion ==
    [][\A e \in EntryValues :
          (op' = "append" /\ histKey' = append(histKey, e)
                          /\ webHistKey' = webAppend(webHistKey, e)) =>
            /\ PlusOne(getAll(histKey), getAll(histKey'), e)
            /\ PlusOne(webGetAll(webHistKey), webGetAll(webHistKey'), e)]_storeVars

\* C11 witness: an entry was appended whose id an earlier entry carries
C11_Witness ==
    /\ op = "append"
    /\ \E i, j \in DOMAIN getAll(histKey) :
         /\ i # j
         /\ getAll(histKey)[i].id = getAll(histKey)[j].id
         /\ getAll(histKey)[i].completedAtISO # getAll(histKey)[j].completedAtISO

\* C12: start(), from any stored payload, stores status Running, startedAt =
\* now, endAt = now + 1500 * 1000 ms and remainingSec = 1500, and leaves the
\* history as it was.
C12_StartUnconditional ==
    [][op' = "start" =>
         /\ runKey' = RunPayload("object", Str("running"), toISOString(now),
                                 Num(now + 1500000), Num(1500))
         /\ histKey' = histKey]_storeVars

\* C12 witness: start() ran mid-way through the clock's range, no entry stored
C12_Witness ==
    /\ op = "start"
    /\ now = 749000
    /\ runKey.endAtEpochMs = Num(2249000)
    /\ getAll(histKey) = <<>>

\* C13: pause() at time now on a stored Running record with deadline endAt
\* stores status Paused, endAt null, the same startedAt, and remainingSec =
\* clamp(ceil((endAt - now)/1000), 0, 1500).  Stated of both stores.
C13_PauseRecord ==
    [][op' = "pause" =>
         /\ IsRunningRecord(runKey) =>
              runKey' = RunPayload("object", Str("paused"), runKey.startedAtISO, Null,
                                   Num(ClampCeilSeconds(runKey.endAtEpochMs, now)))
         /\ IsRunningRecord(webRunKey) =>
              webRunKey' = RunPayload("object", Str("paused"), webRunKey.startedAtISO, Null,
                                      Num(ClampCeilSeconds(webRunKey.endAtEpochMs, now)))]_storeVars

\* C13 witness: a running session was paused mid-second, the remainder rounded up
C13_Witness ==
    /\ op = "pause"
    /\ runKey = RunPayload("object", Str("paused"), toISOString(0), Null, Num(1))
    /\ webRunKey = runKey
    /\ now = 1499001

\* the stored record is a Paused record with an integer remainder in [lo, hi]
IsPausedRecord(p, lo, hi) ==
    /\ p.kind = "object"
    /\ p.status = Str("paused")
    /\ IsString(p.startedAtISO) \/ p.startedAtISO = Null
    /\ IsNumber(p.remainingSec) /\ IsFinite(p.remainingSec)
    /\ p.remainingSec.f = 0
    /\ p.remainingSec.n \in lo..hi

\* the record resume() is to leave at time t for the Paused record p
Resumed(p, t) ==
    RunPayload("object", Str("running"),
               IF p.startedAtISO = Null THEN toISOString(t) ELSE p.startedAtISO,
               Num(t + p.remainingSec.n * 1000), p.remainingSec)

\* C14: resume() at time now on a stored Paused record with remainingSec =
\* r > 0 stores status Running, endAt = now + r * 1000 ms, remainingSec = r
\* and the stored startedAt (now when it is null); hydrate() at that instant
\* returns remainingSec = r.  Stated of both stores.
C14_ResumeRecord ==
    [][op' = "resume" =>
         /\ IsPausedRecord(runKey, 1, 1500) =>
              /\ runKey' = Resumed(runKey, now)
              /\ hydrate(runKey', now).state.remainingSec = runKey.remainingSec.n
         /\ IsPausedRecord(webRunKey, 1, 1500) =>
              /\ webRunKey' = Resumed(webRunKey, now)
              /\ webHydrate(webRunKey', now).state.remainingSec
                   = webRunKey.remainingSec.n]_storeVars

\* C14 witness: a session paused with 751 s left was resumed at the deadline
C14_Witness ==
    /\ op = "resume"
    /\ now = 1500000
    /\ runKey = RunPayload("object", Str("running"), toISOString(0), Num(2251000), Num(751))
    /\ webRunKey = runKey

\* C15: resume() on a stored Paused record with remainingSec <= 0 leaves the
\* record reset() leaves, the idle state, and no Running record.  Stated of
\* both stores.
C15_ResumeAtZero ==
    [][op' = "resume" =>
         /\ IsPausedRecord(runKey, -3, 0) =>
              /\ runKey' = reset
              /\ runKey' = RunPayload("object", Str("idle"), Null, Null, Num(1500))
         /\ IsPausedRecord(webRunKey, -3, 0) =>
              webRunKey' = webReset /\ webRunKey'.status # Str("running")]_storeVars

\* C15 witness: past the deadline resume() left the idle record, nothing stored
\* in the history
C15_Witness ==
    /\ op = "resume"
    /\ now = 1501000
    /\ runKey = RunPayload("object", Str("idle"), Null, Null, Num(1500))
    /\ webRunKey = runKey
    /\ getAll(histKey) = <<>>

\* the stored state is Idle: nothing stored, or the record reset() writes
IsIdleStored(p) ==
    p = AbsentRun \/ p = RunPayload("object", Str("idle"), Null, Null, Num(1500))

\* a well-formed Paused record: no deadline, an integer remainder in [0, 1500]
IsPausedStored(p) == IsPausedRecord(p, 0, 1500) /\ p.endAtEpochMs = Null

\* a well-formed Running record: a deadline, an integer remainder in [0, 1500]
IsRunningStored(p) ==
    /\ IsRunningRecord(p)
    /\ IsNumber(p.remainingSec) /\ IsFinite(p.remainingSec)
    /\ p.remainingSec.f = 0
    /\ p.remainingSec.n \in 0..1500

\* the step is pause() on a well-formed Idle or Paused state, or resume() on
\* a well-formed Idle or Running state
Misuse ==
    \/ op' = "pause" /\ (IsIdleStored(runKey) \/ IsPausedStored(runKey))
    \/ op' = "resume" /\ (IsIdleStored(runKey) \/ IsRunningStored(runKey))

\* C16 as stated: pause() on Idle or Paused and resume() on Idle or Running
\* leave the persisted run-state record and the history exactly as they were
C16_MisuseNoOp ==
    [][Misuse => runKey' = runKey /\ histKey' = histKey]_storeVars

\* C16 amended: such a call leaves the history as it was and the run-state
\* record as it was except for what its implicit hydration writes: status,
\* startedAt and endAt are kept, and the remainingSec of a Running record
\* becomes clamp(ceil((endAt - now)/1000), 0, 1500)
C16_MisuseHydratesOnly ==
    [][Misuse =>
         /\ histKey' = histKey
         /\ IF IsRunningStored(runKey)
            THEN runKey' = RunPayload("object", runKey.status, runKey.startedAtISO,
                                      runKey.endAtEpochMs,
                                      Num(ClampCeilSeconds(runKey.endAtEpochMs, now)))
            ELSE runKey' = runKey]_storeVars

\* C16 witness: resume() ran on a session running since 0, half-way through
C16_Witness ==
    /\ op = "resume"
    /\ now = 749000
    /\ runKey = RunPayload("object", Str("running"), toISOString(0), Num(1500000), Num(751))

\* the record getIdleState() serializes to
IdleRecord == RunPayload("object", Str("idle"), Null, Null, Num(1500))

\* C17: reset() is idempotent: from any stored payload reset() stores the
\* record of getIdleState(); a second reset() leaves that record as it is; and
\* hydrate() after one reset() or after two returns getIdleState() and stores
\* nothing else.  Stated of both stores.
C17_ResetIdempotent ==
    [][/\ op' = "reset" =>
            /\ runKey' = IdleRecord
            /\ webRunKey' = IdleRecord
            /\ hydrate(runKey', now').state = createIdleState
            /\ webHydrate(webRunKey', now').state = createIdleState
       /\ (op = "reset" /\ op' = "reset") =>
            /\ runKey' = runKey
            /\ webRunKey' = webRunKey
       /\ (op = "reset" /\ op' = "hydrate") =>
            /\ ret' = createIdleState /\ runKey' = runKey
            /\ webRet' = createIdleState /\ webRunKey' = webRunKey]_storeVars

\* C17 witness: hydrate() ran right after a reset() past the deadline of a
\* session, and returned the idle state
C17_Witness ==
    /\ op = "hydrate"
    /\ now = 1501000
    /\ ret = createIdleState
    /\ runKey = IdleRecord
    /\ webRunKey = IdleRecord

\* the status the store reads from the stored payload
Status(p) == readRunState(p).status

\* the status the localStorage store reads from the stored payload
webStatus(p) == webReadState(p).status

\* the status changes a call of the named operation may make
Allowed(operation, before, after) ==
    CASE operation = "reset" -> after = "idle"
      [] operation = "start" -> after = "running"
      [] operation = "pause" -> after = before \/ (before = "running" /\ after = "paused")
      [] operation = "resume" ->
           after = before \/ (before = "paused" /\ after \in {"running", "idle"})
      [] OTHER -> after = before

\* C18: no state traps the caller: in every reachable state, Paused with
\* nothing remaining and Running past its deadline included, reset() and
\* start() can be called, reset() leaves Idle and start() leaves Running; and
\* the status changes only Idle->Running and any->Running by start(),
\* Running->Paused by pause(), Paused->Running and Paused->Idle by resume(),
\* any->Idle by reset(); hydrate() changes no status.  Stated of both stores.
\* (hydrate() can be called in every state, so the states its steps leave
\* are all the reachable ones.)
C18_NoTrap ==
    [][/\ op' = "hydrate" => (ENABLED CallReset) /\ (ENABLED CallStart)
       /\ Status(reset) = "idle" /\ Status(start(now)) = "running"
       /\ webStatus(webReset) = "idle" /\ webStatus(webStart(now)) = "running"
       /\ Allowed(op', Status(runKey), Status(runKey'))
       /\ Allowed(op', webStatus(webRunKey), webStatus(webRunKey'))]_storeVars

\* C18 witness: a session running past its deadline was paused with nothing
\* remaining
C18_Witness ==
    /\ op = "pause"
    /\ now = 3000000
    /\ runKey = RunPayload("object", Str("paused"), toISOString(0), Null, Num(0))
    /\ webRunKey = runKey
    /\ ENABLED CallReset

\* a stored remainingSec that is an integer number in [0, 1500]
IsSeconds(v) == v.t = "num" /\ v.f = 0 /\ v.n \in 0..SESSION_DURATION_SEC

\* C19: remainingSec is an integer in [0, 1500] in every record a store
\* operation writes and in every state hydrate() returns, whatever payload was
\* stored (a remainder negative, above 1500, fractional, infinite, not a
\* number, or missing; a deadline long past or far ahead) and whatever the
\* clock reads.  Stated of both stores.
C19_RemainingInRange ==
    [][/\ op' = "hydrate" =>
            /\ ret'.remainingSec \in 0..SESSION_DURATION_SEC
            /\ webRet'.remainingSec \in 0..SESSION_DURATION_SEC
       /\ op' \in {"hydrate", "start", "pause", "resume", "reset"} =>
            /\ runKey' # runKey => IsSeconds(runKey'.remainingSec)
            /\ webRunKey' # webRunKey => IsSeconds(webRunKey'.remainingSec)]_storeVars

\* C19 witness: hydrate() ran on a Running record whose deadline is 9000 s
\* ahead, and returned and stored 1500, the upper end of the range
C19_Witness ==
    /\ op = "hydrate"
    /\ now = 0
    /\ ret.remainingSec = 1500
    /\ runKey = RunPayload("object", Str("running"), Null, Num(9000000), Num(1500))

\* the stored record is that of a session start() began: Running or Paused,
\* well-formed, with the startedAt start() wrote
IsSession(p) ==
    /\ IsRunningStored(p) \/ IsPausedStored(p)
    /\ IsString(p.startedAtISO)

\* the call is resume() on a Paused record with nothing remaining
ResumesAtZero(operation, p) ==
    operation = "resume" /\ IsPausedStored(p) /\ p.remainingSec.n = 0

\* C20 as stated: start() stores startedAt = now, and every pause(), resume()
\* and hydrate() on the record of a session leaves the stored startedAt as it
\* was, so that it is the one start() wrote until the next start() or reset()
C20_StartedAtPreserved ==
    [][/\ op' = "start" =>
            IsSession(runKey') /\ runKey'.startedAtISO = toISOString(now)
       /\ (op' \in {"pause", "resume", "hydrate"} /\ IsSession(runKey)) =>
            IsSession(runKey') /\ runKey'.startedAtISO = runKey.startedAtISO
       /\ (op' \in {"pause", "resume", "hydrate"} /\ IsSession(webRunKey)) =>
            IsSession(webRunKey') /\ webRunKey'.startedAtISO = webRunKey.startedAtISO]_storeVars

\* C20 amended: the same, except that resume() on a Paused record with
\* nothing remaining ends the session as reset() does and stores startedAt
\* null.  Stated of both stores.
C20_StartedAtPreservedUntilEnd ==
    [][/\ op' = "start" =>
            IsSession(runKey') /\ runKey'.startedAtISO = toISOString(now)
       /\ (op' \in {"pause", "resume", "hydrate"} /\ IsSession(runKey)) =>
            IF ResumesAtZero(op', runKey)
            THEN runKey' = IdleRecord /\ runKey'.startedAtISO = Null
            ELSE IsSession(runKey') /\ runKey'.startedAtISO = runKey.startedAtISO
       /\ (op' \in {"pause", "resume", "hydrate"} /\ IsSession(webRunKey)) =>
            IF ResumesAtZero(op', webRunKey)
            THEN webRunKey' = IdleRecord /\ webRunKey'.startedAtISO = Null
            ELSE /\ IsSession(webRunKey')
                 /\ webRunKey'.startedAtISO = webRunKey.startedAtISO]_storeVars

\* C20 witness: a session started at 1000 ms was paused and, later, resumed:
\* the record still carries the startedAt of its start()
C20_Witness ==
    /\ op = "resume"
    /\ now = 1499001
    /\ runKey = RunPayload("object", Str("running"), toISOString(1000), Num(2251001), Num(752))
    /\ webRunKey = runKey

-----------------------------------------------------------------------------
(* Properties of the history, the completion sequence and the two stores *)

\* the element is an object with a string id, startedAt and completedAt and
\* durationSec = 1500
HasEntryShape(x) ==
    /\ x.obj
    /\ x.id.t = "str" /\ x.startedAtISO.t = "str" /\ x.completedAtISO.t = "str"
    /\ x.durationSec = Num(1500)

\* returned holds the well-shaped elements of stored, each as often as stored
\* holds it, and nothing else
KeepsExactlyShaped(stored, returned) ==
    /\ \A i \in DOMAIN stored :
         Count(returned, stored[i])
           = IF HasEntryShape(stored[i]) THEN Count(stored, stored[i]) ELSE 0
    /\ \A i \in DOMAIN returned : Count(stored, returned[i]) > 0

\* C21: getAll() on a stored JSON array returns exactly the elements that are
\* objects with string id, startedAt, completedAt and durationSec = 1500, and
\* drops every other element, one by one.  Stated of both repositories.
C21_FiltersElementWise ==
    [][(op' = "getAll" /\ histKey.kind = "array") =>
         /\ KeepsExactlyShaped(histKey.items, got')
         /\ KeepsExactlyShaped(webHistKey.items, webGot')]_storeVars

\* C21 for the AsyncStorage repository alone
C21_FiltersElementWiseAsync ==
    [][(op' = "getAll" /\ histKey.kind = "array") =>
         KeepsExactlyShaped(histKey.items, got')]_storeVars

Dispatch(status) ==
    CASE status = "running" -> "pause"
      [] status = "paused" -> "resume"
      [] OTHER -> "start"

\* a button was pressed: its handler is called
Pressed == ui.pc = "idle" /\ ui'.pc # "idle"

Consistent(p, t) ==
    IsRunningStored(p) =>
      \/ p.remainingSec.n = SESSION_DURATION_SEC
      \/ Delta10(p.endAtEpochMs, t) <= 10000 * p.remainingSec.n

\* one call of hydrate(), pause() or resume() on the record before, which
\* left the record after: the session goes on and its remainder did not grow.
\* ends tells the calls that are taken to end the session.
NoGain(operation, before, after, t, ends) ==
    (operation \in {"hydrate", "pause", "resume"}
       /\ IsSession(before) /\ Consistent(before, t)
       /\ ~ends) =>
      /\ IsSession(after)
      /\ Consistent(after, t)
      /\ after.remainingSec.n <= before.remainingSec.n

\* hydrate() at t0 on the Running record p and again at t1 >= t0, nothing in
\* between: while neither result is clamped, the results differ by the delay
\* within less than one second
TracksDelay(p, t0, t1) ==
    LET first == hydrate(p, t0)
        second == hydrate(first.stored, t1)
        d == t1 - t0
        drop == 1000 * (first.state.remainingSec - second.state.remainingSec)
    IN  (IsRunningStored(p) /\ p.endAtEpochMs.f = 0
           /\ p.endAtEpochMs.n - t0 <= 1000 * SESSION_DURATION_SEC
           /\ p.endAtEpochMs.n - t1 > 0) =>
          d - 1000 < drop /\ drop < d + 1000

\* what C24 says of every session, given the calls that end one
Decreasing(asyncEnds, webEnds) ==
    /\ op' = "start" =>
         IsSession(runKey') /\ Consistent(runKey', now) /\ runKey'.remainingSec.n = 1500
    /\ op' = "tick" => (Consistent(runKey, now) => Consistent(runKey', now'))
    /\ NoGain(op', runKey, runKey', now, asyncEnds)
    /\ NoGain(op', webRunKey, webRunKey', now, webEnds)
    /\ (op' = "hydrate" /\ IsSession(runKey) /\ Consistent(runKey, now)) =>
         /\ ret'.remainingSec = runKey'.remainingSec.n
         /\ \A t1 \in Times : t1 >= now => TracksDelay(runKey, now, t1)
    /\ (op' = "hydrate" /\ IsSession(webRunKey) /\ Consistent(webRunKey, now)) =>
         webRet'.remainingSec = webRunKey'.remainingSec.n

\* C24 as stated: remaining time never grows within a session: start() stores
\* the full 1500 s; from then to the next start() or reset(), under a clock
\* that does not go back, every hydrate(), pause() and resume() leaves a
\* remainder no greater than the one stored before, and hydrate() returns the
\* remainder it stores; two hydrate() calls on a Running record d ms apart
\* return values that differ by d within less than 1 s, until clamped.
C24_NeverIncreases ==
    [][Decreasing(FALSE, FALSE)]_storeVars

\* C24 amended: the same, the session ending also with a resume() of a Paused
\* record with nothing remaining, which stores the idle state and its 1500 s.
\* Stated of both stores.
C24_NeverIncreasesUntilEnd ==
    [][Decreasing(ResumesAtZero(op', runKey), ResumesAtZero(op', webRunKey))]_storeVars

\* C24 witness: a session started at 1000 ms, paused with 752 s left and
\* resumed at 1499001 ms is hydrated 999 ms later: 752 s still, not more
C24_Witness ==
    /\ op = "hydrate"
    /\ now = 1500000
    /\ ret.remainingSec = 752
    /\ runKey = RunPayload("object", Str("running"), toISOString(1000), Num(2251001), Num(752))

\* C25: reset() is not undone by a hydrate() in flight: once the stored state
\* is Idle, under every interleaving of the screen's calls, only start()
\* makes it anything else; a hydrate() that read a Running record before the
\* reset() writes nothing that brings the record back.
C25_ResetNotUndone ==
    [][(Status(runKey) = "idle" /\ Status(runKey') # "idle") =>
         runKey' = start(now)]_vars

\* the step is the last of the completeSession call in flight: its
\* syncFromStorage has resolved, the lock is released and React renders
CompletionReturns ==
    /\ comp.pc \in {"s_read", "s_write"}
    /\ comp' # comp
    /\ comp'.pc # "s_write"

\* the step renders a state that triggers the completion effect while
\* completeSession holds completionLockRef
TriggeredWhileLocked ==
    /\ completionLockRef
    /\ ~CompletionReturns
    /\ EffectFires(runState', isHydrated')

\* C28: at most one completion sequence is in flight: completionLockRef is
\* set exactly while a completeSession call is between its first and its last
\* step; a trigger of the completion effect in that time leaves that call as
\* it is and calls nothing (no append, no reset); and only the call that
\* holds the lock appends to the history.
C28_OneCompletion ==
    [][/\ completionLockRef' = (comp'.pc # "idle")
       /\ TriggeredWhileLocked =>
            comp' = comp /\ histKey' = histKey /\ runKey' = runKey
       /\ histKey' # histKey => completionLockRef /\ comp.pc = "a_read"]_vars

\* C28 witness: a completion sequence is in flight, the screen shows a state
\* that is not Running, and a foreground hydration is about to render Running
\* with nothing remaining: the completion effect is triggered again
C28_Witness ==
    /\ completionLockRef
    /\ comp.pc # "idle"
    /\ isHydrated
    /\ runState.status # "running"
    /\ fg.pc = "h_write"
    /\ fg.cur.status = "running"
    /\ fg.cur.remainingSec <= 0

\* C29: the two stores agree: from the same stored payloads, at the same
\* clock values and under the same calls run one at a time, the localStorage
\* store and the AsyncStorage store return the same hydrate() state and
\* getAll() entries and hold the same run-state record and history.
C29_StoresAgree ==
    /\ webRet = ret
    /\ webRunKey = runKey
    /\ webGot = got
    /\ webHistKey = histKey

\* what is left of the session whose record is stored, in ms: the time to the
\* deadline when Running, the stored remainder when Paused
Budget(p, t) ==
    IF p.status = Str("running") THEN p.endAtEpochMs.n - t
    ELSE 1000 * p.remainingSec.n

\* the first report of expiry: hydrate() returns Running with nothing
\* remaining, the record stored before having something
FirstExpiry ==
    /\ op' = "hydrate"
    /\ ret'.status = "running"
    /\ ret'.remainingSec = 0
    /\ runKey.remainingSec.n > 0

\* C27 as stated: when hydrate() first reports remainingSec = 0, the record
\* has been Running for at least 1500 s since its start(), and for less than
\* 1500 + P s, P the number of pause() calls
C27_ExpiryWindow ==
    [][FirstExpiry =>
         /\ runningMs >= 1000 * SESSION_DURATION_SEC
         /\ runningMs < 1000 * (SESSION_DURATION_SEC + pauses)]_vars

\* C27 amended: running time and what is left add up to 1500 s plus less than
\* a second for each pause() (each rounds the remainder up, none down); so
\* hydrate() reports nothing remaining only after 1500 s of running, and
\* reports it whenever the running time has reached 1500 + P s: the first
\* report comes then, or later if hydrate() is called later
C27_ExpiresAfterFullSession ==
    [][/\ IsSession(runKey') =>
            /\ runningMs' + Budget(runKey', now') >= 1000 * SESSION_DURATION_SEC
            /\ (runKey'.status = Str("running") \/ runKey'.remainingSec.n > 0) =>
                 runningMs' + Budget(runKey', now')
                   <= 1000 * (SESSION_DURATION_SEC + pauses')
                      - (IF pauses' > 0 THEN 1 ELSE 0)
       /\ (op' = "hydrate" /\ ret'.status # "idle" /\ ret'.remainingSec = 0) =>
            runningMs >= 1000 * SESSION_DURATION_SEC
       /\ (op' = "hydrate" /\ ret'.status = "running"
             /\ runningMs >= 1000 * (SESSION_DURATION_SEC + pauses)) =>
            ret'.remainingSec = 0]_vars

\* C27 witness: a session paused once, after 1 ms, is reported expired after
\* 1500.001 s of running
C27_Witness ==
    /\ op = "hydrate"
    /\ ret.status = "running"
    /\ ret.remainingSec = 0
    /\ pauses = 1
    /\ runningMs = 1500001

\* C30: the persisted focus run state is never Running while the break timer
\* is running
C30_NeverBothRunning ==
    ~(Status(runKey) = "running" /\ breakState.status = "running")

\* the screen as the first completion of the single-timer driver leaves it
AfterFirstCompletion ==
    /\ now = POMODORO_SECONDS * 1000
    /\ runKey = reset
    /\ histKey = FirstCompleted
    /\ runState = createIdleState
    /\ isHydrated
    /\ ~completionLockRef
    /\ isModalVisible
    /\ errorMessage = "null"
    /\ mount.pc = "done"
    /\ fg = NoCall /\ ui = NoCall /\ comp = NoCall

\* C26: a completion in which the chime or the history append failed still
\* leaves the run state Idle (stored, or the displayed state when reset
\* failed too), an error message set, the modal shown and the lock released
C26_CompletionEndsIdle ==
    [][op' = "complete_append_failed" =>
         /\ webStatus(webRunKey') = "idle" \/ runState' = createIdleState
         /\ errorMessage' # "null"
         /\ isModalVisible'
         /\ ~completionLockRef']_vars

====
